---- MODULE Spec2Model ----
(***************************************************************************)
(* 3-2-5 (Teen Do Paanch): the rules engine of src/lib/gameLogic.ts and    *)
(* the game actions of the useGameActions hook, acting on the rooms and    *)
(* players tables.                                                         *)
(*                                                                         *)
(* Encoding of JavaScript values:                                          *)
(*   - a Card is a record [suit, rank]; suits are "S","H","D","C" for      *)
(*     the four suit glyphs; ranks are the strings of the Rank type;       *)
(*   - null of a string column is "null"; null of a boolean column makes   *)
(*     the column one of "null","true","false"; null of a number is -1;    *)
(*     null of an array column is the empty sequence (the code reads these *)
(*     columns through `x || []` or `x && x.length > 0`); a nullable       *)
(*     object is a sequence of length 0 (null) or 1;                       *)
(*   - arrays are sequences (1-based); positions and indices handed to     *)
(*     the handlers stay 0-based as in the code.                           *)
(***************************************************************************)
EXTENDS Integers, Sequences, FiniteSets, TLC

\* ------------------------------------------------------------------------
\* Bounds of the model
\* ------------------------------------------------------------------------
\* Math.random is drawn from the streams 0..MaxSeed.
MaxSeed == 1
\* startNewRound is requested only while round_number <= MaxRound.
MaxRound == 2
\* The hands handed to isValidMove by SpecMove hold 1..MaxProbeHand cards.
MaxProbeHand == 3
\* ------------------------------------------------------------------------
\* Types and constants (gameLogic.ts)
\* ------------------------------------------------------------------------
NULL == "null"
NullInt == -1
Positions == 0 .. 2
Suits == <<"S", "H", "D", "C">>
SuitSet == {"S", "H", "D", "C"}
Ranks == <<"A", "K", "Q", "J", "10", "9", "8">>

rankValues(r) ==
  CASE r = "A" -> 14
    [] r = "K" -> 13
    [] r = "Q" -> 12
    [] r = "J" -> 11
    [] r = "10" -> 10
    [] r = "9" -> 9
    [] r = "8" -> 8
    [] r = "7" -> 7

Card(s, r) == [suit |-> s, rank |-> r]
NoCard == [suit |-> NULL, rank |-> NULL]

Range(s) == {s[i] : i \in 1 .. Len(s)}

\* Array.prototype.slice(n): drops the first n elements
Slice(s, n) == IF n >= Len(s) THEN <<>> ELSE SubSeq(s, n + 1, Len(s))

\* ------------------------------------------------------------------------
\* Deck operations
\* ------------------------------------------------------------------------
createDeck ==
  [i \in 1 .. 28 |-> Card(Suits[((i - 1) \div 7) + 1], Ranks[((i - 1) % 7) + 1])]
    \o <<Card("S", "7"), Card("H", "7")>>

DeckSet == Range(createDeck)

\* Math.random: a stream is a linear congruential sequence; the k-th draw
\* of floor(Math.random() * n) is the current term modulo n.
RandFirst(seed) == (seed * 7919 + 12345) % 65537
RandNext(r) == (r * 75 + 74) % 65537
RandBelow(r, n) == r % n

Swap(arr, i, j) == [arr EXCEPT ![i + 1] = arr[j + 1], ![j + 1] = arr[i + 1]]

\* for (let i = length-1; i > 0; i--) { j = floor(random*(i+1)); swap(i, j) }
RECURSIVE FisherYates(_, _, _)
FisherYates(arr, i, r) ==
  IF i <= 0 THEN arr
  ELSE FisherYates(Swap(arr, i, RandBelow(r, i + 1)), i - 1, RandNext(r))

shuffle(array, seed) == FisherYates(array, Len(array) - 1, RandFirst(seed))

\* Mutation: every seat is handed the cards of seat 0
DealTo_SameSeat(cards, n, player) ==
  [i \in 1 .. n |-> cards[(i - 1) * 3 + 1]]

\* hands[player].push(cards[i * 3 + player]) for i < n: the cards dealt to
\* one seat by a round-robin deal of n cards per seat
DealTo(cards, n, player) == [i \in 1 .. n |-> cards[(i - 1) * 3 + player + 1]]

\* dealCards: 10 cards to each of 3 players from one deck
dealCards(deck) == [player \in Positions |-> DealTo(deck, 10, player)]

\* ------------------------------------------------------------------------
\* Trick evaluation
\* ------------------------------------------------------------------------
\* Mutation: of two trump cards the one played later wins
EvalStep_LaterTrump(cardsPlayed, trump, leadSuit, winningIndex, i) ==
  LET currentCard == cardsPlayed[i + 1].card
      winningCard == cardsPlayed[winningIndex + 1].card
  IN IF trump # NULL /\ currentCard.suit = trump THEN i
     ELSE IF currentCard.suit = leadSuit /\ winningCard.suit = leadSuit
             /\ winningCard.suit # trump
       THEN IF rankValues(currentCard.rank) > rankValues(winningCard.rank)
              THEN i ELSE winningIndex
     ELSE winningIndex

\* One iteration of the loop of evaluateTrick: the new winningIndex (0-based)
EvalStep(cardsPlayed, trump, leadSuit, winningIndex, i) ==
  LET currentCard == cardsPlayed[i + 1].card
      winningCard == cardsPlayed[winningIndex + 1].card
  IN IF trump # NULL /\ currentCard.suit = trump /\ winningCard.suit # trump
       THEN i
     ELSE IF trump # NULL /\ currentCard.suit = trump /\ winningCard.suit = trump
       THEN IF rankValues(currentCard.rank) > rankValues(winningCard.rank)
              THEN i ELSE winningIndex
     ELSE IF currentCard.suit = leadSuit /\ winningCard.suit = leadSuit
             /\ winningCard.suit # trump
       THEN IF rankValues(currentCard.rank) > rankValues(winningCard.rank)
              THEN i ELSE winningIndex
     ELSE winningIndex

RECURSIVE EvalLoop(_, _, _, _, _)
EvalLoop(cardsPlayed, trump, leadSuit, winningIndex, i) ==
  IF i >= Len(cardsPlayed) THEN winningIndex
  ELSE EvalLoop(cardsPlayed, trump, leadSuit,
                EvalStep(cardsPlayed, trump, leadSuit, winningIndex, i), i + 1)

\* Mutation: the leader of a trick always takes it
evaluateTrick_Leader(cardsPlayed, trump) ==
  IF Len(cardsPlayed) = 0 THEN -1 ELSE cardsPlayed[1].position

evaluateTrick(cardsPlayed, trump) ==
  IF Len(cardsPlayed) = 0 THEN -1
  ELSE cardsPlayed[EvalLoop(cardsPlayed, trump, cardsPlayed[1].card.suit, 0, 1) + 1].position

\* ------------------------------------------------------------------------
\* Move validation
\* ------------------------------------------------------------------------
hasCardsOfSuit(hand, suit) == \E i \in 1 .. Len(hand) : hand[i].suit = suit

\* Mutation: every card counts as following suit
isFollowingSuit_Any(card, leadSuit) == TRUE

isFollowingSuit(card, leadSuit) == card.suit = leadSuit

\* Mutation: the rules of both first leads are applied together
validateTrumpLeadingRules_Both(card, hand, trump, trumpLedAtStart) ==
  /\ ~(card.suit # trump /\ hasCardsOfSuit(hand, trump))
  /\ ~(card.suit = trump /\ (\E i \in 1 .. Len(hand) : hand[i].suit # trump))

\* Mutation: the rule for a non-trump first lead is applied in every round
validateTrumpLeadingRules_NoLatch(card, hand, trump, trumpLedAtStart) ==
  ~(card.suit = trump /\ (\E i \in 1 .. Len(hand) : hand[i].suit # trump))

\* trumpLedAtStart is "true", "false" or "null"; the else branch of the code
\* takes both false and null
validateTrumpLeadingRules(card, hand, trump, trumpLedAtStart) ==
  LET isPlayingTrump == card.suit = trump
      hasTrump == hasCardsOfSuit(hand, trump)
      hasNonTrump == \E i \in 1 .. Len(hand) : hand[i].suit # trump
  IN IF trumpLedAtStart = "true"
       THEN ~(~isPlayingTrump /\ hasTrump)
       ELSE ~(isPlayingTrump /\ hasNonTrump)

\* the .valid field of the result
isValidMove(card, hand, currentTrick, trump, trickIndex, trumpLedAtStart) ==
  IF Len(currentTrick) = 0
    THEN IF trickIndex = 0 THEN TRUE
         ELSE IF trump # NULL
                THEN validateTrumpLeadingRules(card, hand, trump, trumpLedAtStart)
                ELSE TRUE
    ELSE LET leadSuit == currentTrick[1].card.suit
         IN ~(hasCardsOfSuit(hand, leadSuit) /\ ~isFollowingSuit(card, leadSuit))

\* ------------------------------------------------------------------------
\* Player targets and positions
\* ------------------------------------------------------------------------
\* Mutation: the targets of the two seats after the dealer are exchanged
getTargetTricks_Exchanged(position, dealerPosition) ==
  IF position = dealerPosition THEN 2
  ELSE IF position = (dealerPosition + 1) % 3 THEN 3
  ELSE 5

\* Mutation: the targets of the first round are kept in every round
getTargetTricks_FirstRound(position, dealerPosition) ==
  IF position = 0 THEN 2
  ELSE IF position = 1 THEN 5
  ELSE 3

getTargetTricks(position, dealerPosition) ==
  IF position = dealerPosition THEN 2
  ELSE IF position = (dealerPosition + 1) % 3 THEN 5
  ELSE 3

\* Mutation: the dealer is taken for the 5-trick player
getFiveTrickPlayerPosition_Dealer(dealerPosition) == dealerPosition

getFiveTrickPlayerPosition(dealerPosition) == (dealerPosition + 1) % 3

\* ------------------------------------------------------------------------
\* Card pull
\* ------------------------------------------------------------------------
\* The comparator handed to overScorers.sort
ComparePullers(a, b, dealerIndex) ==
  IF b.extraTricks # a.extraTricks
    THEN b.extraTricks - a.extraTricks
    ELSE LET aDistance == (a.position - dealerIndex + 3) % 3
             bDistance == (b.position - dealerIndex + 3) % 3
         IN aDistance - bDistance

\* Array.prototype.sort is stable: x, which came after every element of
\* sorted, goes before the first element it is strictly less than
RECURSIVE InsertPuller(_, _, _)
InsertPuller(sorted, x, dealerIndex) ==
  IF sorted = <<>> THEN <<x>>
  ELSE IF ComparePullers(x, Head(sorted), dealerIndex) < 0
         THEN <<x>> \o sorted
         ELSE <<Head(sorted)>> \o InsertPuller(Tail(sorted), x, dealerIndex)

RECURSIVE SortPullers(_, _)
SortPullers(s, dealerIndex) ==
  IF s = <<>> THEN <<>>
  ELSE InsertPuller(SortPullers(SubSeq(s, 1, Len(s) - 1), dealerIndex),
                    s[Len(s)], dealerIndex)

\* The categorising loop of calculatePullEligibility
RECURSIVE OverScorersOf(_)
OverScorersOf(previousResults) ==
  IF previousResults = <<>> THEN <<>>
  ELSE LET result == Head(previousResults)
           diff == result.tricksWon - result.targetTricks
       IN (IF diff > 0
             THEN <<[position |-> result.position, extraTricks |-> diff,
                     pullsRemaining |-> diff]>>
             ELSE <<>>) \o OverScorersOf(Tail(previousResults))

RECURSIVE UnderScorersOf(_)
UnderScorersOf(previousResults) ==
  IF previousResults = <<>> THEN <<>>
  ELSE LET result == Head(previousResults)
           diff == result.tricksWon - result.targetTricks
       IN (IF diff < 0 THEN <<[position |-> result.position]>> ELSE <<>>)
            \o UnderScorersOf(Tail(previousResults))

\* Mutation: a seat that met its target exactly is pulled from
calculatePullEligibility_AtTarget(previousResults, dealerIndex) ==
  [overScorers |-> SortPullers(OverScorersOf(previousResults), dealerIndex),
   underScorers |->
     LET low == SelectSeq(previousResults, LAMBDA r : r.tricksWon <= r.targetTricks)
     IN [i \in 1 .. Len(low) |-> [position |-> low[i].position]]]

calculatePullEligibility(previousResults, dealerIndex) ==
  [overScorers |-> SortPullers(OverScorersOf(previousResults), dealerIndex),
   underScorers |-> UnderScorersOf(previousResults)]

initializeCardPullState(overScorers, underScorers) ==
  [pullers |-> overScorers,
   underScorers |-> underScorers,
   currentPullerIndex |-> 0,
   phase |-> "selecting_target",
   selectedTarget |-> NullInt,
   pulledCard |-> NoCard,
   pulledCardIndex |-> NullInt]

\* Mutation: one card of the returned suit kept is enough
canReturnCard_KeepOne(returnCard, pulledCard, currentHand) ==
  \/ returnCard.suit = pulledCard.suit
  \/ Len(SelectSeq(currentHand, LAMBDA c : c.suit = returnCard.suit)) - 1 >= 1

\* Mutation: four cards of the returned suit must be kept
canReturnCard_KeepFour(returnCard, pulledCard, currentHand) ==
  \/ returnCard.suit = pulledCard.suit
  \/ Len(SelectSeq(currentHand, LAMBDA c : c.suit = returnCard.suit)) - 1 >= 4

\* Mutation: the cards counted are those of the suit of the pulled card
canReturnCard_PulledSuit(returnCard, pulledCard, currentHand) ==
  \/ returnCard.suit = pulledCard.suit
  \/ Len(SelectSeq(currentHand, LAMBDA c : c.suit = pulledCard.suit)) - 1 >= 2

\* the .valid field of the result
canReturnCard(returnCard, pulledCard, currentHand) ==
  LET isSameCard == returnCard.suit = pulledCard.suit /\ returnCard.rank = pulledCard.rank
      isSameSuit == returnCard.suit = pulledCard.suit
      cardsOfReturnSuit == SelectSeq(currentHand, LAMBDA c : c.suit = returnCard.suit)
      cardsRemainingAfterReturn == Len(cardsOfReturnSuit) - 1
  IN IF isSameCard THEN TRUE
     ELSE IF isSameSuit THEN TRUE
     ELSE cardsRemainingAfterReturn >= 2

getValidReturnCards(pulledCard, currentHand) ==
  SelectSeq(currentHand, LAMBDA card : canReturnCard(card, pulledCard, currentHand))

\* ------------------------------------------------------------------------
\* State
\* ------------------------------------------------------------------------
VARIABLES
  room,       \* the row of the rooms table
  players,    \* the rows of the players table, by position
  isDealing,  \* the isDealing flag of useGameActions, per client
  timers,     \* number of pending setTimeout callbacks that clear current_trick
  probe       \* arguments and result of a rules-engine call (function specs)

vars == <<room, players, isDealing, timers, probe>>

\* The tables and the client state, which the handlers read and write
gameVars == <<room, players, isDealing, timers>>

\* Client c is the browser of the player seated at position c.
Clients == Positions

\* Column defaults of the migrations; three players have joined.
InitRoom ==
  [status |-> "waiting",
   dealing_phase |-> "waiting",
   trump_suit |-> NULL,
   dealer_index |-> 0,
   current_player_index |-> 0,
   first_trick_leader |-> NullInt,
   round_number |-> 1,
   current_trick |-> <<>>,
   remaining_cards |-> <<>>,
   trump_led_at_start |-> NULL,
   previous_round_results |-> <<>>,
   card_pull_state |-> <<>>]

InitPlayers ==
  [p \in Positions |->
    [hand |-> <<>>, tricks_won |-> 0, target_tricks |-> NullInt,
     overachievement_score |-> 0]]

Init ==
  /\ room = InitRoom
  /\ players = InitPlayers
  /\ isDealing = [c \in Clients |-> FALSE]
  /\ timers = 0
  /\ probe = <<>>

\* What loadGameState leaves in the React state of client c when it has
\* run after the last write: gameState, players, hand, myPosition, currentTrick
View(c) ==
  [gameState |-> room,
   players |-> players,
   hand |-> players[c].hand,
   myPosition |-> c,
   currentTrick |-> room.current_trick]

BoolStr(b) == IF b THEN "true" ELSE "false"

\* ------------------------------------------------------------------------
\* Dealing phase actions.  A handler reads the client's React state v and
\* writes columns of the tables.
\* ------------------------------------------------------------------------
startGame(c, v, seed) ==
  IF v.gameState.status # "waiting" THEN UNCHANGED gameVars
  ELSE
    LET deck == shuffle(createDeck, seed)
        remainingCards == Slice(deck, 15)
    IN /\ room' = [room EXCEPT !.dealing_phase = "trump_selection",
                               !.status = "dealing",
                               !.remaining_cards = remainingCards]
       /\ players' = [i \in Positions |->
            [players[i] EXCEPT
               !.hand = DealTo(deck, 5, i),
               !.target_tricks = getTargetTricks(i, v.gameState.dealer_index),
               !.tricks_won = 0]]
       /\ UNCHANGED <<isDealing, timers>>

\* Mutation: the last six staged cards are kept in reverse order
finalCards_Reversed(remainingCards) == [i \in 1 .. 6 |-> remainingCards[16 - i]]

\* const finalCards = remainingCards.slice(9)
finalCards(remainingCards) == Slice(remainingCards, 9)

selectTrump(c, v, trump) ==
  IF v.gameState.dealing_phase # "trump_selection" THEN UNCHANGED gameVars
  ELSE
    LET remainingCards == v.gameState.remaining_cards
    IN IF Len(remainingCards) # 15 THEN UNCHANGED gameVars
       ELSE
         LET hands == [i \in Positions |->
                         v.players[i].hand \o DealTo(remainingCards, 3, i)]
         IN /\ room' = [room EXCEPT !.trump_suit = trump,
                                    !.dealing_phase = "dealing_3",
                                    !.remaining_cards = finalCards(remainingCards)]
            /\ players' = [i \in Positions |-> [players[i] EXCEPT !.hand = hands[i]]]
            /\ UNCHANGED <<isDealing, timers>>

\* Mutation: the card pull waits for the third round
shouldDoCardPull_Late(gameState, previousResults) ==
  gameState.round_number > 2 /\ Len(previousResults) > 0

\* gameState.round_number > 1 && previousResults && previousResults.length > 0
shouldDoCardPull(gameState, previousResults) ==
  gameState.round_number > 1 /\ Len(previousResults) > 0

dealFinalCards(c, v) ==
  IF v.gameState.dealing_phase # "dealing_3" \/ isDealing[c] THEN UNCHANGED gameVars
  ELSE
    LET remainingCards == v.gameState.remaining_cards
    IN IF Len(remainingCards) # 6
         THEN \* setIsDealing(true) ... setIsDealing(false)
              UNCHANGED gameVars
       ELSE
         LET hands == [i \in Positions |->
                         v.players[i].hand \o DealTo(remainingCards, 2, i)]
             firstTrickLeader == getFiveTrickPlayerPosition(v.gameState.dealer_index)
             previousResults == v.gameState.previous_round_results
             elig == calculatePullEligibility(previousResults, v.gameState.dealer_index)
             doPull == shouldDoCardPull(v.gameState, previousResults)
                         /\ Len(elig.overScorers) > 0
                         /\ Len(elig.underScorers) > 0
             cardPullState ==
               IF doPull
                 THEN <<initializeCardPullState(elig.overScorers, elig.underScorers)>>
                 ELSE <<>>
             nextPhase == IF doPull THEN "card_pull" ELSE "playing"
             nextStatus == IF doPull THEN "dealing" ELSE "playing"
         IN /\ isDealing' = [isDealing EXCEPT ![c] = TRUE]
            /\ room' = [room EXCEPT !.status = nextStatus,
                                    !.dealing_phase = nextPhase,
                                    !.current_player_index = firstTrickLeader,
                                    !.first_trick_leader = firstTrickLeader,
                                    !.remaining_cards = <<>>,
                                    !.trump_led_at_start = NULL,
                                    !.card_pull_state = cardPullState]
            /\ players' = [i \in Positions |-> [players[i] EXCEPT !.hand = hands[i]]]
            /\ UNCHANGED <<timers>>

\* ------------------------------------------------------------------------
\* Playing phase actions
\* ------------------------------------------------------------------------
\* handleRoundEnd reads gameState and players of the render that created the
\* playCard callback, i.e. the same React state v that playCard reads.
\* updatedPlayers[p].overachievement_score
UpdatedScore(v, p) ==
  v.players[p].overachievement_score
    + (v.players[p].tricks_won - v.players[p].target_tricks)

\* updatedPlayers.find(p => p.overachievement_score >= 5) is defined
RoundEndHasWinner(v) == \E p \in Positions : UpdatedScore(v, p) >= 5

\* The rooms row after the writes of handleRoundEnd, r being the row before
handleRoundEndRoom(v, r) ==
  IF RoundEndHasWinner(v)
    THEN [r EXCEPT !.status = "finished", !.dealing_phase = "finished"]
    ELSE [r EXCEPT
            !.dealer_index = (v.gameState.dealer_index + 1) % 3,
            !.round_number = v.gameState.round_number + 1,
            !.dealing_phase = "redistribution",
            !.status = "redistribution",
            !.previous_round_results =
               [i \in 1 .. 3 |->
                 [position |-> i - 1,
                  tricksWon |-> v.players[i - 1].tricks_won,
                  targetTricks |-> v.players[i - 1].target_tricks]]]

\* The players rows after the writes of handleRoundEnd, pl being the rows before
handleRoundEndPlayers(v, pl) ==
  IF RoundEndHasWinner(v) THEN pl
  ELSE [p \in Positions |->
          [pl[p] EXCEPT !.overachievement_score = UpdatedScore(v, p)]]

\* Mutation: the flag is taken from the lead of every trick
isFirstCardOfFirstTrick_EveryLead(trickIndex, currentTrick) ==
  Len(currentTrick) = 0

\* trickIndex === 0 && currentTrick.length === 0
isFirstCardOfFirstTrick(trickIndex, currentTrick) ==
  trickIndex = 0 /\ Len(currentTrick) = 0

\* Mutation: the turn passes counter-clockwise
NextPlayerIndex_Back(gameState) ==
  (gameState.current_player_index + 2) % 3

\* (gameState.current_player_index + 1) % 3
NextPlayerIndex(gameState) ==
  (gameState.current_player_index + 1) % 3

\* Mutation: the winner of a trick is not credited
WinnerTricksWon_Same(winner) ==
  winner.tricks_won

\* winner.tricks_won + 1
WinnerTricksWon(winner) ==
  winner.tricks_won + 1

\* Mutation: a card is taken although the trick has not been cleared
trickNotCleared_Never(currentTrick) == FALSE

\* currentTrick.length >= 3
trickNotCleared(currentTrick) == Len(currentTrick) >= 3

playCard(c, v, card) ==
  IF v.myPosition # v.gameState.current_player_index THEN UNCHANGED gameVars
  ELSE IF trickNotCleared(v.currentTrick) THEN UNCHANGED gameVars
  ELSE
    LET trickIndex == 10 - Len(v.hand)
        valid == isValidMove(card, v.hand, v.currentTrick, v.gameState.trump_suit,
                             trickIndex, v.gameState.trump_led_at_start)
        newTrick == Append(v.currentTrick, [position |-> v.myPosition, card |-> card])
        newHand == SelectSeq(v.hand, LAMBDA h : ~(h.suit = card.suit /\ h.rank = card.rank))
    IN IF ~valid THEN UNCHANGED gameVars
       ELSE IF Len(newTrick) = 3
         THEN
           LET winnerPosition == evaluateTrick(newTrick, v.gameState.trump_suit)
               winner == v.players[winnerPosition]
               playersHand == [players EXCEPT ![v.myPosition].hand = newHand]
               playersWon == [playersHand EXCEPT
                                ![winnerPosition].tricks_won = WinnerTricksWon(winner)]
               roomTrick == [room EXCEPT !.current_trick = newTrick,
                                         !.current_player_index = winnerPosition]
           IN /\ timers' = timers + 1
              /\ IF Len(newHand) = 0
                   THEN /\ room' = handleRoundEndRoom(v, roomTrick)
                        /\ players' = handleRoundEndPlayers(v, playersWon)
                   ELSE /\ room' = roomTrick
                        /\ players' = playersWon
              /\ UNCHANGED isDealing
         ELSE
           LET roomUpdate ==
                 [room EXCEPT !.current_trick = newTrick,
                              !.current_player_index = NextPlayerIndex(v.gameState)]
           IN /\ room' = IF isFirstCardOfFirstTrick(trickIndex, v.currentTrick)
                           THEN [roomUpdate EXCEPT !.trump_led_at_start =
                                    BoolStr(card.suit = v.gameState.trump_suit)]
                           ELSE roomUpdate
              /\ players' = [players EXCEPT ![v.myPosition].hand = newHand]
              /\ UNCHANGED <<isDealing, timers>>

\* The callback of setTimeout(..., 2000) scheduled by playCard
clearTrick ==
  /\ timers > 0
  /\ timers' = timers - 1
  /\ room' = [room EXCEPT !.current_trick = <<>>]
  /\ UNCHANGED <<players, isDealing>>

\* ------------------------------------------------------------------------
\* Card pull actions
\* ------------------------------------------------------------------------
isValidTarget_AnySeat(cardPullState, targetPosition) ==
  targetPosition \in Positions

\* cardPullState.underScorers.some(u => u.position === targetPosition)
isValidTarget(cardPullState, targetPosition) ==
  \E i \in 1 .. Len(cardPullState.underScorers) :
     cardPullState.underScorers[i].position = targetPosition

selectPullTarget(c, v, targetPosition) ==
  LET cps == v.gameState.card_pull_state
  IN IF cps = <<>> THEN UNCHANGED gameVars
     ELSE IF cps[1].phase # "selecting_target" THEN UNCHANGED gameVars
     ELSE
       LET cardPullState == cps[1]
           currentPuller == cardPullState.pullers[cardPullState.currentPullerIndex + 1]
       IN IF v.myPosition # currentPuller.position THEN UNCHANGED gameVars
          ELSE IF ~isValidTarget(cardPullState, targetPosition) THEN UNCHANGED gameVars
          ELSE /\ room' = [room EXCEPT !.card_pull_state =
                             <<[cardPullState EXCEPT !.phase = "selecting_card",
                                                     !.selectedTarget = targetPosition]>>]
               /\ UNCHANGED <<players, isDealing, timers>>

pulledCardAt_First(targetHand, cardIndex) == targetHand[1]

\* targetHand[cardIndex], for the 1-based sequences of the model
pulledCardAt(targetHand, cardIndex) == targetHand[cardIndex + 1]

selectCardPosition(c, v, cardIndex) ==
  LET cps == v.gameState.card_pull_state
  IN IF cps = <<>> THEN UNCHANGED gameVars
     ELSE IF cps[1].phase # "selecting_card" \/ cps[1].selectedTarget = NullInt
       THEN UNCHANGED gameVars
     ELSE
       LET cardPullState == cps[1]
           currentPuller == cardPullState.pullers[cardPullState.currentPullerIndex + 1]
       IN IF v.myPosition # currentPuller.position THEN UNCHANGED gameVars
          ELSE IF cardPullState.selectedTarget \notin Positions THEN UNCHANGED gameVars
          ELSE
            LET targetHand == v.players[cardPullState.selectedTarget].hand
            IN IF cardIndex < 0 \/ cardIndex >= Len(targetHand) THEN UNCHANGED gameVars
               ELSE /\ room' = [room EXCEPT !.card_pull_state =
                                  <<[cardPullState EXCEPT
                                       !.phase = "returning_card",
                                       !.pulledCard = pulledCardAt(targetHand, cardIndex),
                                       !.pulledCardIndex = cardIndex]>>]
                    /\ UNCHANGED <<players, isDealing, timers>>

swapCard_Keep(cards, given, taken) == Append(cards, taken)

\* cards.filter(c => !(c is given)) followed by push(taken)
swapCard(cards, given, taken) ==
  Append(SelectSeq(cards, LAMBDA h : ~(h.suit = given.suit /\ h.rank = given.rank)),
         taken)

nextPullerIndex_Same(cardPullState) == cardPullState.currentPullerIndex

\* const nextPullerIndex = cardPullState.currentPullerIndex + 1
nextPullerIndex(cardPullState) == cardPullState.currentPullerIndex + 1

returnCard(c, v, returnCardToGive) ==
  LET cps == v.gameState.card_pull_state
  IN IF cps = <<>> THEN UNCHANGED gameVars
     ELSE IF cps[1].phase # "returning_card" \/ cps[1].pulledCard = NoCard
             \/ cps[1].selectedTarget = NullInt
       THEN UNCHANGED gameVars
     ELSE
       LET cardPullState == cps[1]
           currentPuller == cardPullState.pullers[cardPullState.currentPullerIndex + 1]
           pulledCard == cardPullState.pulledCard
       IN IF v.myPosition # currentPuller.position THEN UNCHANGED gameVars
          ELSE IF ~canReturnCard(returnCardToGive, pulledCard, v.hand) THEN UNCHANGED gameVars
          ELSE IF cardPullState.selectedTarget \notin Positions THEN UNCHANGED gameVars
          ELSE
            LET pullerNewHand == swapCard(v.hand, returnCardToGive, pulledCard)
                targetHand == v.players[cardPullState.selectedTarget].hand
                targetNewHand == swapCard(targetHand, pulledCard, returnCardToGive)
                updatedPullers ==
                  [cardPullState.pullers EXCEPT
                     ![cardPullState.currentPullerIndex + 1].pullsRemaining =
                        currentPuller.pullsRemaining - 1]
                newState ==
                  IF updatedPullers[cardPullState.currentPullerIndex + 1].pullsRemaining > 0
                    THEN <<[cardPullState EXCEPT
                              !.pullers = updatedPullers,
                              !.phase = "selecting_target",
                              !.selectedTarget = NullInt,
                              !.pulledCard = NoCard,
                              !.pulledCardIndex = NullInt]>>
                  ELSE IF nextPullerIndex(cardPullState) < Len(updatedPullers)
                    THEN <<[cardPullState EXCEPT
                              !.pullers = updatedPullers,
                              !.currentPullerIndex = nextPullerIndex(cardPullState),
                              !.phase = "selecting_target",
                              !.selectedTarget = NullInt,
                              !.pulledCard = NoCard,
                              !.pulledCardIndex = NullInt]>>
                  ELSE <<>>
                \* the two players updates, in the order of the code
                playersPuller == [players EXCEPT ![v.myPosition].hand = pullerNewHand]
                playersTarget == [playersPuller EXCEPT
                                    ![cardPullState.selectedTarget].hand = targetNewHand]
            IN /\ players' = playersTarget
               /\ room' = IF newState # <<>>
                            THEN [room EXCEPT !.card_pull_state = newState]
                            ELSE [room EXCEPT !.status = "playing",
                                              !.dealing_phase = "playing",
                                              !.card_pull_state = <<>>]
               /\ UNCHANGED <<isDealing, timers>>

\* ------------------------------------------------------------------------
\* Round management
\* ------------------------------------------------------------------------
\* Mutation: a new round is started from any status
inRedistribution_Always(gameState) == TRUE

\* the negation of gameState.status !== 'redistribution'
inRedistribution(gameState) == gameState.status = "redistribution"

startNewRound(c, v, seed) ==
  IF ~inRedistribution(v.gameState) THEN UNCHANGED gameVars
  ELSE
    LET currentDealerIndex == room.dealer_index   \* fetched from the table
        deck == shuffle(createDeck, seed)
        remainingCards == Slice(deck, 15)
    IN /\ room' = [room EXCEPT !.dealing_phase = "trump_selection",
                               !.status = "dealing",
                               !.trump_suit = NULL,
                               !.remaining_cards = remainingCards,
                               !.current_trick = <<>>,
                               !.trump_led_at_start = NULL]
       /\ players' = [i \in Positions |->
            [players[i] EXCEPT
               !.hand = DealTo(deck, 5, i),
               !.target_tricks = getTargetTricks(i, currentDealerIndex),
               !.tricks_won = 0]]
       /\ UNCHANGED <<isDealing, timers>>

\* ------------------------------------------------------------------------
\* Requests.  The page renders the control of a handler only in the phase of
\* that handler: the start button while status is 'waiting', the trump
\* selector for the 5-trick player during trump_selection, the deal button
\* for the dealer during dealing_3, the card-pull panel during card_pull,
\* the hand as clickable cards while status is 'playing', and the next-round
\* button while status is 'redistribution'.
\* ------------------------------------------------------------------------
Seeds == 0 .. MaxSeed

\* The cards of s a client submits: every card that Test rejects, and the
\* first card that Test accepts
Picks(s, Test(_)) ==
  {s[i] : i \in {k \in 1 .. Len(s) :
                   ~Test(s[k]) \/ (\A j \in 1 .. k - 1 : ~Test(s[j]))}}

PlayInputs(c) ==
  LET v == View(c)
  IN Picks(v.hand,
           LAMBDA h : isValidMove(h, v.hand, v.currentTrick, v.gameState.trump_suit,
                                  10 - Len(v.hand), v.gameState.trump_led_at_start))

\* The first position of a hand, and one out of range on either side
PullIndexInputs == {-1, 0, 10}

ReturnInputs(c) ==
  LET v == View(c)
      cps == v.gameState.card_pull_state
  IN IF cps = <<>> THEN Range(v.hand)
     ELSE Picks(v.hand, LAMBDA h : canReturnCard(h, cps[1].pulledCard, v.hand))

StartGame ==
  \E c \in Clients, seed \in Seeds :
    /\ room.status = "waiting"
    /\ startGame(c, View(c), seed)
    /\ UNCHANGED probe

SelectTrump ==
  \E c \in Clients, trump \in SuitSet :
    /\ room.dealing_phase = "trump_selection"
    /\ c = getFiveTrickPlayerPosition(room.dealer_index)
    /\ selectTrump(c, View(c), trump)
    /\ UNCHANGED probe

DealFinalCards ==
  \E c \in Clients :
    /\ room.dealing_phase = "dealing_3"
    /\ c = room.dealer_index
    /\ dealFinalCards(c, View(c))
    /\ UNCHANGED probe

PlayCard ==
  \E c \in Clients :
    /\ room.status = "playing"
    /\ \E card \in PlayInputs(c) : playCard(c, View(c), card)
    /\ UNCHANGED probe

ClearTrick == clearTrick /\ UNCHANGED probe

SelectPullTarget ==
  \E c \in Clients, targetPosition \in Positions :
    /\ room.dealing_phase = "card_pull"
    /\ selectPullTarget(c, View(c), targetPosition)
    /\ UNCHANGED probe

SelectCardPosition ==
  \E c \in Clients, cardIndex \in PullIndexInputs :
    /\ room.dealing_phase = "card_pull"
    /\ selectCardPosition(c, View(c), cardIndex)
    /\ UNCHANGED probe

ReturnCard ==
  \E c \in Clients :
    /\ room.dealing_phase = "card_pull"
    /\ \E card \in ReturnInputs(c) : returnCard(c, View(c), card)
    /\ UNCHANGED probe

\* The round-complete screen is left after the 2000 ms display hold of the
\* last trick has run out.
StartNewRound ==
  \E c \in Clients, seed \in Seeds :
    /\ room.status = "redistribution"
    /\ room.round_number <= MaxRound
    /\ timers = 0
    /\ startNewRound(c, View(c), seed)
    /\ UNCHANGED probe

\* Every client has reloaded (loadGameState) before the next request is
\* handled, and a handler's writes are applied as one step.
Next ==
  \/ StartGame
  \/ SelectTrump
  \/ DealFinalCards
  \/ PlayCard
  \/ ClearTrick
  \/ SelectPullTarget
  \/ SelectCardPosition
  \/ ReturnCard
  \/ StartNewRound

Spec == Init /\ [][Next]_vars

\* The current puller keeps acting: the card-pull screen offers the puller
\* a step (a target, a position, a card to return) until the pull is over,
\* and a step that stays possible is eventually taken.
PullFairness ==
  /\ WF_vars(SelectPullTarget)
  /\ WF_vars(SelectCardPosition)
  /\ WF_vars(ReturnCard)

SpecFair == Spec /\ PullFairness

\* ------------------------------------------------------------------------
\* The rules engine called on its own: isValidMove
\* ------------------------------------------------------------------------
\* Two spades, two hearts, one diamond, one club
ProbePool ==
  <<Card("S", "A"), Card("S", "7"), Card("H", "K"), Card("H", "10"),
    Card("D", "Q"), Card("C", "9")>>

\* Hands of distinct cards, in the order of the pool
ProbeHands ==
  {SelectSeq(ProbePool, LAMBDA c : c \in S) :
     S \in {T \in SUBSET Range(ProbePool) :
              Cardinality(T) >= 1 /\ Cardinality(T) <= MaxProbeHand}}

\* Partial tricks of 0, 1 and 2 plays
ProbeTricks ==
  {<<>>}
    \cup {<<[position |-> 0, card |-> lead]>> : lead \in Range(ProbePool)}
    \cup {<<[position |-> 2, card |-> lead], [position |-> 0, card |-> Card("D", "A")]>> :
            lead \in Range(ProbePool)}

MoveInputs ==
  [op : {"isValidMove"},
   card : Range(ProbePool),
   hand : ProbeHands,
   currentTrick : ProbeTricks,
   trump : SuitSet \cup {NULL},
   trickIndex : {0, 1},
   trumpLedAtStart : {"true", "false", NULL},
   result : {"pending"}]

InitMove ==
  /\ room = InitRoom
  /\ players = InitPlayers
  /\ isDealing = [c \in Clients |-> FALSE]
  /\ timers = 0
  /\ probe \in MoveInputs

CallIsValidMove ==
  /\ probe.op = "isValidMove"
  /\ probe.result = "pending"
  /\ probe' = [probe EXCEPT !.result =
                 BoolStr(isValidMove(probe.card, probe.hand, probe.currentTrick,
                                     probe.trump, probe.trickIndex,
                                     probe.trumpLedAtStart))]
  /\ UNCHANGED <<room, players, isDealing, timers>>

NextMove == CallIsValidMove

SpecMove == InitMove /\ [][NextMove]_vars

\* ------------------------------------------------------------------------
\* The rules engine called on its own: evaluateTrick
\* ------------------------------------------------------------------------
\* Three plays of distinct cards of the deck by the three seats, clockwise
\* from any leader
DistinctTriples ==
  {t \in DeckSet \X DeckSet \X DeckSet : t[1] # t[2] /\ t[1] # t[3] /\ t[2] # t[3]}

TrickInputs ==
  {[op |-> "evaluateTrick",
    cardsPlayed |-> <<[position |-> leader, card |-> t[1]],
                      [position |-> (leader + 1) % 3, card |-> t[2]],
                      [position |-> (leader + 2) % 3, card |-> t[3]]>>,
    trump |-> tr,
    result |-> NullInt] :
     leader \in Positions, tr \in SuitSet \cup {NULL}, t \in DistinctTriples}

InitTrick ==
  /\ room = InitRoom
  /\ players = InitPlayers
  /\ isDealing = [c \in Clients |-> FALSE]
  /\ timers = 0
  /\ probe \in TrickInputs

CallEvaluateTrick ==
  /\ probe.op = "evaluateTrick"
  /\ probe.result = NullInt
  /\ probe' = [probe EXCEPT !.result = evaluateTrick(probe.cardsPlayed, probe.trump)]
  /\ UNCHANGED <<room, players, isDealing, timers>>

NextTrick == CallEvaluateTrick

SpecTrick == InitTrick /\ [][NextTrick]_vars


\* ------------------------------------------------------------------------
\* The rules engine called on its own: calculatePullEligibility
\* ------------------------------------------------------------------------
\* The results of a round dealt by previousDealer, each seat with 0 to 10
\* tricks, and the dealer of the round that follows or any other seat
EligInputs ==
  {[op |-> "calculatePullEligibility",
    previousResults |->
      [i \in 1 .. 3 |->
         [position |-> i - 1,
          tricksWon |-> tricks[i - 1],
          targetTricks |-> getTargetTricks(i - 1, previousDealer)]],
    dealerIndex |-> dealerIndex,
    done |-> FALSE,
    result |-> [overScorers |-> <<>>, underScorers |-> <<>>]] :
     tricks \in [Positions -> 0 .. 10],
     previousDealer \in Positions,
     dealerIndex \in Positions}

InitElig ==
  /\ room = InitRoom
  /\ players = InitPlayers
  /\ isDealing = [c \in Clients |-> FALSE]
  /\ timers = 0
  /\ probe \in EligInputs

CallCalculatePullEligibility ==
  /\ probe.op = "calculatePullEligibility"
  /\ ~probe.done
  /\ probe' = [probe EXCEPT
                 !.done = TRUE,
                 !.result = calculatePullEligibility(probe.previousResults,
                                                     probe.dealerIndex)]
  /\ UNCHANGED <<room, players, isDealing, timers>>

NextElig == CallCalculatePullEligibility

SpecElig == InitElig /\ [][NextElig]_vars

\* ------------------------------------------------------------------------
\* The rules engine called on its own: canReturnCard
\* ------------------------------------------------------------------------
\* Four spades, two hearts, one diamond
ReturnPool ==
  <<Card("S", "A"), Card("S", "K"), Card("S", "Q"), Card("S", "J"),
    Card("H", "A"), Card("H", "K"), Card("D", "9")>>

\* The hands of pool cards, in the order of the pool
ReturnHands ==
  {SelectSeq(ReturnPool, LAMBDA c : c \in S) : S \in SUBSET Range(ReturnPool)}

\* A card pulled from another hand: of each suit one
PulledCards == {Card("S", "7"), Card("H", "7"), Card("D", "8"), Card("C", "8")}

\* Three clubs, three diamonds, one spade
MinorPool ==
  <<Card("C", "A"), Card("C", "K"), Card("C", "Q"),
    Card("D", "A"), Card("D", "K"), Card("D", "Q"), Card("S", "A")>>

\* The hands of cards of the second pool, in the order of the pool
MinorHands ==
  {SelectSeq(MinorPool, LAMBDA c : c \in S) : S \in SUBSET Range(MinorPool)}

ReturnProbes ==
  [op : {"canReturnCard"},
   returnCard : Range(ReturnPool),
   pulledCard : PulledCards,
   currentHand : ReturnHands,
   result : {"pending"}]
  \cup
  [op : {"canReturnCard"},
   returnCard : Range(MinorPool),
   pulledCard : PulledCards,
   currentHand : MinorHands,
   result : {"pending"}]

InitReturn ==
  /\ room = InitRoom
  /\ players = InitPlayers
  /\ isDealing = [c \in Clients |-> FALSE]
  /\ timers = 0
  /\ probe \in ReturnProbes

CallCanReturnCard ==
  /\ probe.op = "canReturnCard"
  /\ probe.result = "pending"
  /\ probe' = [probe EXCEPT !.result =
                 BoolStr(canReturnCard(probe.returnCard, probe.pulledCard,
                                       probe.currentHand))]
  /\ UNCHANGED <<room, players, isDealing, timers>>

NextReturn == CallCanReturnCard

SpecReturn == InitReturn /\ [][NextReturn]_vars

\* ------------------------------------------------------------------------
\* The rules engine called on its own: getValidReturnCards on hands of 10
\* cards.  canReturnCard reads the suits of the hand and whether the card
\* returned is the card pulled, so one hand stands for every hand with the
\* same number of cards of each suit.
\* ------------------------------------------------------------------------
HandSize == 10

CardsOfSuit(suit) == SelectSeq(createDeck, LAMBDA c : c.suit = suit)

\* The numbers of cards of each suit that a hand of 10 cards can hold
SuitCounts ==
  {n \in [SuitSet -> 0 .. 8] :
     /\ n["S"] + n["H"] + n["D"] + n["C"] = HandSize
     /\ \A suit \in SuitSet : n[suit] <= Len(CardsOfSuit(suit))}

\* The hand that holds the first n[suit] cards of every suit
HandOfCounts(n) ==
  SubSeq(CardsOfSuit("S"), 1, n["S"]) \o SubSeq(CardsOfSuit("H"), 1, n["H"])
    \o SubSeq(CardsOfSuit("D"), 1, n["D"]) \o SubSeq(CardsOfSuit("C"), 1, n["C"])

\* The pulled card comes from another hand: the last card of a suit that
\* the hand does not hold entirely
ValidReturnProbes ==
  {[op |-> "getValidReturnCards",
    pulledCard |-> CardsOfSuit(x[2])[Len(CardsOfSuit(x[2]))],
    currentHand |-> HandOfCounts(x[1]),
    result |-> <<>>] :
     x \in {y \in SuitCounts \X SuitSet : y[1][y[2]] < Len(CardsOfSuit(y[2]))}}

InitValidReturn ==
  /\ room = InitRoom
  /\ players = InitPlayers
  /\ isDealing = [c \in Clients |-> FALSE]
  /\ timers = 0
  /\ probe \in ValidReturnProbes

CallGetValidReturnCards ==
  /\ probe.op = "getValidReturnCards"
  /\ probe.result = <<>>
  /\ probe' = [probe EXCEPT !.result =
                 <<getValidReturnCards(probe.pulledCard, probe.currentHand)>>]
  /\ UNCHANGED <<room, players, isDealing, timers>>

NextValidReturn == CallGetValidReturnCards

SpecValidReturn == InitValidReturn /\ [][NextValidReturn]_vars

\* ------------------------------------------------------------------------
\* The card-pull handlers called with any argument by any client.  probe
\* holds the last call of a card-pull handler and whether it changed the
\* room or a player.  During card_pull no other handler is called and no
\* timer is pending, so every step taken from a card_pull state is the call
\* that probe holds after the step.  A call that changed nothing is not
\* followed up: the calls that can follow it are those that can be made in
\* its place.
\* ------------------------------------------------------------------------
NoRequest ==
  [op |-> "none", client |-> NullInt, target |-> NullInt,
   cardIndex |-> NullInt, card |-> NoCard, changed |-> TRUE]

\* Positions of a 10-card hand at both ends, and one out of range on
\* either side
PullIndexRequests == {-1, 0, 9, 10}

\* The cards ReturnInputs gives, the first card of each other hand and the
\* pulled card itself, which the target still holds
ReturnRequests(c) ==
  ReturnInputs(c)
    \cup {players[q].hand[1] : q \in {r \in Positions \ {c} : Len(players[r].hand) > 0}}
    \cup (IF room.card_pull_state # <<>>
             /\ room.card_pull_state[1].pulledCard # NoCard
            THEN {room.card_pull_state[1].pulledCard} ELSE {})

InitPull ==
  /\ room = InitRoom
  /\ players = InitPlayers
  /\ isDealing = [c \in Clients |-> FALSE]
  /\ timers = 0
  /\ probe = NoRequest

\* The first round is played; the second one is dealt and pulled for
PullRound == 2

PullPlayCard ==
  \E c \in Clients :
    /\ room.status = "playing"
    /\ room.round_number < PullRound
    /\ \E card \in PlayInputs(c) : playCard(c, View(c), card)
    /\ UNCHANGED probe

RequestPullTarget ==
  \E c \in Clients, targetPosition \in Positions :
    /\ room.dealing_phase = "card_pull"
    /\ probe.changed
    /\ selectPullTarget(c, View(c), targetPosition)
    /\ probe' = [op |-> "selectPullTarget", client |-> c,
                 target |-> targetPosition, cardIndex |-> NullInt,
                 card |-> NoCard, changed |-> gameVars' # gameVars]

RequestCardPosition ==
  \E c \in Clients, cardIndex \in PullIndexRequests :
    /\ room.dealing_phase = "card_pull"
    /\ probe.changed
    /\ selectCardPosition(c, View(c), cardIndex)
    /\ probe' = [op |-> "selectCardPosition", client |-> c,
                 target |-> NullInt, cardIndex |-> cardIndex,
                 card |-> NoCard, changed |-> gameVars' # gameVars]

RequestReturnCard ==
  \E c \in Clients :
    /\ room.dealing_phase = "card_pull"
    /\ probe.changed
    /\ \E card \in ReturnRequests(c) :
         /\ returnCard(c, View(c), card)
         /\ probe' = [op |-> "returnCard", client |-> c,
                      target |-> NullInt, cardIndex |-> NullInt,
                      card |-> card, changed |-> gameVars' # gameVars]

NextPull ==
  \/ StartGame
  \/ SelectTrump
  \/ DealFinalCards
  \/ PullPlayCard
  \/ ClearTrick
  \/ RequestPullTarget
  \/ RequestCardPosition
  \/ RequestReturnCard
  \/ StartNewRound

SpecPull == InitPull /\ [][NextPull]_vars

\* ------------------------------------------------------------------------
\* The dealing, playing and round handlers called in every phase.  probe
\* holds the last such call, whether it changed the room, a player or a
\* client (changed) and whether it was made in the phase of its control
\* (inPhase).  Only a call that changed something in its own phase is
\* followed up.  In the phase of a control the call comes from the client
\* that is shown the control; the 5-trick player names the suit of the first
\* card in hand, and the card pull is done through its panel.
\* ------------------------------------------------------------------------
MaxCallRound == MaxRound + 2

NoCall == [op |-> "none", client |-> NullInt, card |-> NoCard,
           changed |-> TRUE, inPhase |-> TRUE]

CallLogged(op, c, card, inPhase) ==
  [op |-> op, client |-> c, card |-> card,
   changed |-> gameVars' # gameVars, inPhase |-> inPhase]

FollowedUp == probe.changed /\ probe.inPhase

InitCalls ==
  /\ room = InitRoom
  /\ players = InitPlayers
  /\ isDealing = [c \in Clients |-> FALSE]
  /\ timers = 0
  /\ probe = NoCall

CallTrumps ==
  LET hand == players[getFiveTrickPlayerPosition(room.dealer_index)].hand
  IN IF Len(hand) > 0 THEN {hand[1].suit} ELSE {"H"}

CallStartGame ==
  \E c \in Clients, seed \in Seeds :
    /\ FollowedUp
    /\ startGame(c, View(c), seed)
    /\ probe' = CallLogged("startGame", c, NoCard, room.status = "waiting")

CallSelectTrump ==
  \E c \in Clients, trump \in CallTrumps :
    /\ FollowedUp
    /\ room.dealing_phase = "trump_selection"
         => c = getFiveTrickPlayerPosition(room.dealer_index)
    /\ selectTrump(c, View(c), trump)
    /\ probe' = CallLogged("selectTrump", c, NoCard,
                           room.dealing_phase = "trump_selection")

CallDealFinalCards ==
  \E c \in Clients :
    /\ FollowedUp
    /\ room.dealing_phase = "dealing_3" => c = room.dealer_index
    /\ dealFinalCards(c, View(c))
    /\ probe' = CallLogged("dealFinalCards", c, NoCard,
                           room.dealing_phase = "dealing_3")

CallPlayCard ==
  \E c \in Clients :
    /\ FollowedUp
    /\ \E card \in PlayInputs(c) :
         /\ playCard(c, View(c), card)
         /\ probe' = CallLogged("playCard", c, card, room.status = "playing")

CallStartNewRound ==
  \E c \in Clients, seed \in Seeds :
    /\ FollowedUp
    /\ room.status = "redistribution"
         => (timers = 0 /\ room.round_number <= MaxCallRound)
    /\ startNewRound(c, View(c), seed)
    /\ probe' = CallLogged("startNewRound", c, NoCard,
                           room.status = "redistribution")

CallClearTrick == FollowedUp /\ ClearTrick

CallCardPull ==
  /\ FollowedUp
  /\ SelectPullTarget \/ SelectCardPosition \/ ReturnCard

NextCalls ==
  \/ CallStartGame
  \/ CallSelectTrump
  \/ CallDealFinalCards
  \/ CallPlayCard
  \/ CallClearTrick
  \/ CallCardPull
  \/ CallStartNewRound

SpecCalls == InitCalls /\ [][NextCalls]_vars

\* ------------------------------------------------------------------------
\* The final deal called by a client whose React state may be behind the
\* tables.  loadGameState reads the rooms row, then the players rows, and
\* only then sets gameState and players; requests of other clients are
\* handled between the two reads.  probe holds the client, the rooms row it
\* has read and not yet set (pending), and gameState and players as set.
\* ------------------------------------------------------------------------
NoView == [client |-> NullInt, pending |-> <<>>, gameState |-> <<>>,
           players |-> <<>>]

InitRace ==
  /\ room = InitRoom
  /\ players = InitPlayers
  /\ isDealing = [c \in Clients |-> FALSE]
  /\ timers = 0
  /\ probe = NoView

\* const { data: room } = await supabase.from('rooms').select('*')
ReadRoom ==
  \E c \in Clients :
    /\ probe.client \in {NullInt, c}
    /\ probe.pending = <<>>
    /\ probe' = [probe EXCEPT !.client = c, !.pending = <<room>>]
    /\ UNCHANGED gameVars

\* const { data: playersData } = await supabase.from('players').select('*'),
\* then setGameState(room) and setPlayers(playersData)
ReadPlayers ==
  /\ probe.pending # <<>>
  /\ probe' = [probe EXCEPT !.pending = <<>>,
                            !.gameState = probe.pending,
                            !.players = <<players>>]
  /\ UNCHANGED gameVars

\* The React state of the client of probe
RaceView ==
  [gameState |-> probe.gameState[1],
   players |-> probe.players[1],
   hand |-> probe.players[1][probe.client].hand,
   myPosition |-> probe.client,
   currentTrick |-> probe.gameState[1].current_trick]

RaceDealFinalCards ==
  /\ probe.gameState # <<>>
  /\ dealFinalCards(probe.client, RaceView)
  /\ UNCHANGED probe

NextRace ==
  \/ StartGame
  \/ SelectTrump
  \/ DealFinalCards
  \/ ReadRoom
  \/ ReadPlayers
  \/ RaceDealFinalCards

SpecRace == InitRace /\ [][NextRace]_vars

\* ------------------------------------------------------------------------
\* The display-hold timers left to run on their own.  The next-round button
\* is rendered as soon as status is 'redistribution', and the callback of
\* setTimeout(..., 2000) runs when the browser of the client that scheduled
\* it gets to it: the requests of the next round are not held back for it.
\* ------------------------------------------------------------------------
TimerRound == 2

StartNewRoundAtOnce ==
  \E c \in Clients, seed \in Seeds :
    /\ room.status = "redistribution"
    /\ room.round_number <= TimerRound
    /\ startNewRound(c, View(c), seed)
    /\ UNCHANGED probe

NextTimer ==
  \/ StartGame
  \/ SelectTrump
  \/ DealFinalCards
  \/ PlayCard
  \/ ClearTrick
  \/ SelectPullTarget
  \/ SelectCardPosition
  \/ ReturnCard
  \/ StartNewRoundAtOnce

SpecTimer == Init /\ [][NextTimer]_vars

\* ------------------------------------------------------------------------
\* Cards played while the card pull is under way.  playCard tests the turn,
\* the length of the trick and the move, not the phase, and during
\* card_pull every seat holds its 10 cards and current_player_index names
\* the leader of the first trick.
\* ------------------------------------------------------------------------
PlayCardDuringPull ==
  \E c \in Clients :
    /\ room.dealing_phase = "card_pull"
    /\ \E card \in PlayInputs(c) : playCard(c, View(c), card)
    /\ UNCHANGED probe

NextPullPlay ==
  \/ StartGame
  \/ SelectTrump
  \/ DealFinalCards
  \/ PlayCard
  \/ PlayCardDuringPull
  \/ ClearTrick
  \/ SelectPullTarget
  \/ SelectCardPosition
  \/ ReturnCard
  \/ StartNewRound

SpecPullPlay == Init /\ [][NextPullPlay]_vars

SpecPullPlayFair == SpecPullPlay /\ PullFairness

\* ------------------------------------------------------------------------
\* Properties of the staged deal
\* ------------------------------------------------------------------------
HandCards(p) == Range(players[p].hand)

StagedCards == Range(room.remaining_cards)

\* No card has been played in the round that has been dealt
NoCardPlayed ==
  /\ room.current_trick = <<>>
  /\ \A p \in Positions : players[p].tricks_won = 0

\* The final deal of the round has taken effect and play has not begun
AfterFinalDeal ==
  \/ room.dealing_phase = "card_pull"
  \/ room.status = "playing" /\ room.dealing_phase = "playing" /\ NoCardPlayed

\* Every hand holds n distinct cards, rem distinct cards are staged, and
\* hands and staged cards split the deck of createDeck
DealtAs(n, rem) ==
  /\ \A p \in Positions :
       Len(players[p].hand) = n /\ Cardinality(HandCards(p)) = n
  /\ Len(room.remaining_cards) = rem /\ Cardinality(StagedCards) = rem
  /\ \A p, q \in Positions : p # q => HandCards(p) \cap HandCards(q) = {}
  /\ \A p \in Positions : HandCards(p) \cap StagedCards = {}
  /\ UNION {HandCards(p) : p \in Positions} \cup StagedCards = DeckSet

\* C1: in every round the hands hold 5, 8 and 10 cards after startDealing,
\* chooseTrump and dealFinal, with 15, 6 and no cards staged; after the
\* final deal the hands are pairwise disjoint and together are the 30
\* distinct cards of createDeck.
C1_StagedDeal ==
  /\ Cardinality(DeckSet) = 30 /\ Len(createDeck) = 30
  /\ room.dealing_phase = "trump_selection" => DealtAs(5, 15)
  /\ room.dealing_phase = "dealing_3" => DealtAs(8, 6)
  /\ AfterFinalDeal =>
       /\ DealtAs(10, 0)
       /\ UNION {HandCards(p) : p \in Positions} = DeckSet

\* The final deal of the second round has taken effect
C1_Witness ==
  /\ room.round_number = 2
  /\ room.status = "playing" /\ NoCardPlayed
  /\ \A p \in Positions : Len(players[p].hand) = 10


\* ------------------------------------------------------------------------
\* Properties of isValidMove
\* ------------------------------------------------------------------------
MoveReturned == probe.op = "isValidMove" /\ probe.result # "pending"

HoldsSuit(hand, suit) == \E h \in Range(hand) : h.suit = suit

HoldsOtherThan(hand, suit) == \E h \in Range(hand) : h.suit # suit

\* C2: on a lead (empty partial trick) with a trump suit set, isValidMove
\* accepts every card at trickIndex 0; at a later trick with trumpLedAtStart
\* true it rejects exactly a non-trump card from a hand holding a trump; at
\* a later trick with trumpLedAtStart false it rejects exactly a trump card
\* from a hand holding a non-trump card.
C2_LeadRule ==
  (MoveReturned /\ Len(probe.currentTrick) = 0 /\ probe.trump # NULL) =>
    /\ probe.trickIndex = 0 => probe.result = "true"
    /\ (probe.trickIndex > 0 /\ probe.trumpLedAtStart = "true") =>
         (probe.result = "false" <=>
            (probe.card.suit # probe.trump /\ HoldsSuit(probe.hand, probe.trump)))
    /\ (probe.trickIndex > 0 /\ probe.trumpLedAtStart = "false") =>
         (probe.result = "false" <=>
            (probe.card.suit = probe.trump /\ HoldsOtherThan(probe.hand, probe.trump)))

\* A non-trump lead at a later trick is refused after a trump first lead
C2_Witness ==
  /\ MoveReturned /\ Len(probe.currentTrick) = 0 /\ probe.trump # NULL
  /\ probe.trickIndex > 0 /\ probe.trumpLedAtStart = "true"
  /\ probe.card.suit # probe.trump
  /\ probe.result = "false"

\* C3: when following (non-empty partial trick), isValidMove rejects a card
\* exactly when its suit differs from the suit of the first play and the
\* hand holds a card of that suit; trump, trickIndex and trumpLedAtStart do
\* not enter the verdict.
C3_FollowRule ==
  (MoveReturned /\ Len(probe.currentTrick) > 0) =>
    LET leadSuit == probe.currentTrick[1].card.suit
    IN probe.result = "false" <=>
         (probe.card.suit # leadSuit /\ HoldsSuit(probe.hand, leadSuit))

\* A trump card is refused at a later trick, after a trump first lead, from
\* a hand that holds the lead suit
C3_Witness ==
  /\ MoveReturned /\ Len(probe.currentTrick) = 2
  /\ probe.trickIndex > 0 /\ probe.trumpLedAtStart = "true"
  /\ probe.card.suit = probe.trump
  /\ probe.result = "false"

\* ------------------------------------------------------------------------
\* Properties of evaluateTrick
\* ------------------------------------------------------------------------
TrickReturned == probe.op = "evaluateTrick" /\ probe.result # NullInt

\* The plays of the probed trick whose card is of the suit
PlaysOfSuit(suit) == {i \in 1 .. 3 : probe.cardsPlayed[i].card.suit = suit}

\* The play with the highest-ranked card among the plays S
HighestOf(S) ==
  CHOOSE i \in S : \A j \in S :
    rankValues(probe.cardsPlayed[j].card.rank) <= rankValues(probe.cardsPlayed[i].card.rank)

\* C4: for a trick of three plays of distinct cards and any trump,
\* evaluateTrick returns the seat of the highest-ranked trump card if a
\* trump was played, otherwise the seat of the highest-ranked card of the
\* suit of the first play; the winning card is trump or of the lead suit.
C4_TrickWinner ==
  TrickReturned =>
    LET leadSuit == probe.cardsPlayed[1].card.suit
        trumps == PlaysOfSuit(probe.trump)
        cand == IF trumps # {} THEN trumps ELSE PlaysOfSuit(leadSuit)
    IN /\ probe.result = probe.cardsPlayed[HighestOf(cand)].position
       /\ \E i \in 1 .. 3 :
            /\ probe.cardsPlayed[i].position = probe.result
            /\ probe.cardsPlayed[i].card.suit \in {probe.trump, leadSuit}

\* The second play trumps the lead and the third play over-trumps it
C4_Witness ==
  /\ TrickReturned
  /\ probe.cardsPlayed[1].card.suit # probe.trump
  /\ probe.cardsPlayed[2].card.suit = probe.trump
  /\ probe.cardsPlayed[3].card.suit = probe.trump
  /\ rankValues(probe.cardsPlayed[3].card.rank) > rankValues(probe.cardsPlayed[2].card.rank)
  /\ probe.result = probe.cardsPlayed[3].position


\* ------------------------------------------------------------------------
\* Properties of play
\* ------------------------------------------------------------------------
TricksWonInRound ==
  players[0].tricks_won + players[1].tricks_won + players[2].tricks_won

\* The step plays the first card of the round
FirstPlay ==
  /\ room.status = "playing" /\ NoCardPlayed
  /\ Len(room'.current_trick) = 1

\* The step is the dealing of the next round
NextRoundDealing == room.status = "redistribution" /\ room'.status = "dealing"

\* The step is an accepted play
AcceptedPlay ==
  /\ room.status = "playing"
  /\ Len(room'.current_trick) = Len(room.current_trick) + 1

C5_Step ==
  /\ (room.dealing_phase = "dealing_3" /\ room'.dealing_phase # "dealing_3") =>
       room'.trump_led_at_start = NULL
  /\ AfterFinalDeal' => room'.trump_led_at_start = NULL
  /\ FirstPlay =>
       room'.trump_led_at_start =
         BoolStr(room'.current_trick[1].card.suit = room.trump_suit)
  /\ (room.trump_led_at_start = NULL /\ room'.trump_led_at_start # NULL) => FirstPlay
  /\ (room.trump_led_at_start # NULL /\ ~NextRoundDealing) =>
       room'.trump_led_at_start = room.trump_led_at_start

ClockwiseFromLeader(trick) ==
  /\ Len(trick) <= 3
  /\ \A i \in 1 .. Len(trick) :
       trick[i].position = (trick[1].position + i - 1) % 3

C6_Step ==
  /\ AcceptedPlay =>
       /\ room'.current_trick[Len(room'.current_trick)].position
            = room.current_player_index
       /\ Len(room'.current_trick) < 3 =>
            room'.current_player_index = (room.current_player_index + 1) % 3
  /\ ClockwiseFromLeader(room'.current_trick)
  /\ Len(room'.current_trick) = 3 =>
       {room'.current_trick[i].position : i \in 1 .. 3} = Positions

\* C6: while playing, an accepted play that leaves fewer than 3 plays in
\* the partial trick moves current_player_index to (current + 1) mod 3, and
\* a completed trick holds exactly one play of each seat, clockwise from
\* the leader of the trick.
C6_TurnOrder == [][C6_Step]_vars

\* A completed trick led by seat 2, so the turn wrapped around
C6_Witness ==
  /\ Len(room.current_trick) = 3
  /\ room.current_trick[1].position = 2
  /\ room.current_trick[2].position = 0

C7_Step ==
  /\ (AcceptedPlay /\ Len(room'.current_trick) = 3) =>
       LET w == evaluateTrick(room'.current_trick, room.trump_suit)
       IN /\ players'[w].tricks_won = players[w].tricks_won + 1
          /\ \A p \in Positions \ {w} :
               players'[p].tricks_won = players[p].tricks_won
          /\ room'.current_player_index = w
  /\ (room.status = "playing" /\ Len(room.current_trick) = 3
        /\ room'.current_trick = <<>>) =>
       room'.current_player_index = room.current_player_index
  /\ (AcceptedPlay /\ room.current_trick = <<>>) =>
       room'.current_trick[1].position = room.current_player_index

\* C7: when an accepted play completes the trick, the seat evaluateTrick
\* returns gains exactly one trick, the tricks of the other two seats are
\* unchanged, and current_player_index becomes that seat, which leads the
\* next trick.
C7_TrickCredit == [][C7_Step]_vars

\* A completed trick taken by a seat other than the one that played last,
\* for its third trick or more
C7_Witness ==
  /\ room.status = "playing" /\ Len(room.current_trick) = 3
  /\ room.current_player_index # room.current_trick[3].position
  /\ players[room.current_player_index].tricks_won >= 3

FiveSeat == (room.dealer_index + 1) % 3

\* The round has been pulled for: the saved results hold a seat over its
\* target and a seat under it
PullWasDue ==
  /\ room.round_number > 1
  /\ \E r \in Range(room.previous_round_results) : r.tricksWon > r.targetTricks
  /\ \E r \in Range(room.previous_round_results) : r.tricksWon < r.targetTricks

RoundEnds ==
  room.status = "playing" /\ room'.status \in {"redistribution", "finished"}

\* The cumulative score of seat p with the overachievement of the round
\* that the step ends, all of its tricks counted
ScoreDue(p) ==
  players[p].overachievement_score
    + (players'[p].tricks_won - players'[p].target_tricks)

\* C9: at the end of a round the cumulative score of every seat grows by
\* tricks_won - target_tricks, tricks_won counting all 10 tricks of the
\* round, the last included.
C9_ScoreAtRoundEnd ==
  [][RoundEnds =>
       \A p \in Positions : players'[p].overachievement_score = ScoreDue(p)]_vars

\* C10: at the end of a round the game is finished if and only if the
\* cumulative score of some seat, the overachievement of the round added,
\* is at least 5; otherwise the status is redistribution.
C10_FinishedIffFive ==
  [][RoundEnds =>
       /\ room'.status = "finished" <=> (\E p \in Positions : ScoreDue(p) >= 5)
       /\ room'.status # "finished" => room'.status = "redistribution"]_vars


\* The step ends a round without finishing the game
RoundEndsUnfinished ==
  room.status = "playing" /\ room'.status = "redistribution"

\* C11: on a round end that does not finish the game dealer_index becomes
\* (dealer_index + 1) mod 3, round_number grows by exactly 1, and
\* previous_round_results holds for every seat the final tricks_won and the
\* target_tricks of the round just played.
C11_RoundEndRecord ==
  [][RoundEndsUnfinished =>
       /\ room'.dealer_index = (room.dealer_index + 1) % 3
       /\ players[room'.dealer_index].target_tricks = 5
       /\ room'.round_number = room.round_number + 1
       /\ Len(room'.previous_round_results) = 3
       /\ \A p \in Positions :
            \E r \in Range(room'.previous_round_results) :
              /\ r.position = p
              /\ r.tricksWon = players'[p].tricks_won
              /\ r.targetTricks = players'[p].target_tricks]_vars


\* ------------------------------------------------------------------------
\* Properties of the next round's dealing
\* ------------------------------------------------------------------------
\* The target of seat p under dealer d: 2 for the dealer, 5 for the next
\* seat, 3 for the seat after it
TargetUnder(p, d) ==
  IF p = d THEN 2 ELSE IF p = (d + 1) % 3 THEN 5 ELSE 3

C12_Step ==
  /\ (room.status # "waiting" /\ room.dealing_phase # "trump_selection"
        /\ room'.dealing_phase = "trump_selection") => NextRoundDealing
  /\ NextRoundDealing =>
       /\ room'.dealing_phase = "trump_selection"
       /\ DealtAs(5, 15)'
       /\ \A p \in Positions :
            /\ players'[p].target_tricks = TargetUnder(p, room.dealer_index)
            /\ players'[p].tricks_won = 0
            /\ players'[p].overachievement_score = players[p].overachievement_score
       /\ room'.trump_suit = NULL
       /\ room'.trump_led_at_start = NULL
       /\ room'.current_trick = <<>>
       /\ room'.dealer_index = room.dealer_index
       /\ room'.round_number = room.round_number
       /\ room'.previous_round_results = room.previous_round_results

\* C12: startNewRound, accepted while the status is redistribution, deals
\* 5 cards to every seat from a shuffle of the 30-card deck and stages the
\* other 15, gives seat p the target of p under the already rotated
\* dealer_index, sets every tricks_won to 0, clears trump_suit,
\* trump_led_at_start and current_trick, and leaves the scores,
\* dealer_index, round_number and previous_round_results as they were.
C12_NextRoundDeal == [][C12_Step]_vars

\* The second round has been dealt under dealer 1, with a score on the
\* board and the results of round 1 saved
C12_Witness ==
  /\ room.round_number = 2 /\ room.dealing_phase = "trump_selection"
  /\ room.dealer_index = 1
  /\ players[2].target_tricks = 5
  /\ \E p \in Positions : players[p].overachievement_score # 0
  /\ Len(room.previous_round_results) = 3


\* ------------------------------------------------------------------------
\* Properties of the card pull
\* ------------------------------------------------------------------------
\* The step is the final deal
FinalDealStep ==
  room.dealing_phase = "dealing_3" /\ room'.dealing_phase # "dealing_3"

C13_Step ==
  /\ FinalDealStep =>
       IF PullWasDue
         THEN /\ room'.dealing_phase = "card_pull"
              /\ Len(room'.card_pull_state) = 1
              /\ room'.card_pull_state[1].currentPullerIndex = 0
              /\ room'.card_pull_state[1].phase = "selecting_target"
         ELSE /\ room'.dealing_phase = "playing"
              /\ room'.status = "playing"
              /\ room'.card_pull_state = <<>>
  /\ (room.dealing_phase # "card_pull" /\ room'.dealing_phase = "card_pull") =>
       FinalDealStep
  /\ room'.round_number = 1 =>
       room'.dealing_phase # "card_pull" /\ room'.card_pull_state = <<>>

\* C13: the final deal enters card_pull, with a card pull state of
\* currentPullerIndex 0 and phase selecting_target, if and only if
\* round_number > 1, previous_round_results is not empty and holds a seat
\* over its target and a seat under it; otherwise it goes to playing with
\* no card pull state.  In round 1 card_pull is never entered.
C13_PullEntry == [][C13_Step]_vars

\* The final deal of round 2 has opened a card pull
C13_Witness ==
  /\ room.round_number = 2 /\ room.dealing_phase = "card_pull"
  /\ Len(room.card_pull_state) = 1
  /\ room.card_pull_state[1].phase = "selecting_target"
  /\ room.card_pull_state[1].currentPullerIndex = 0
  /\ \A i \in 1 .. Len(room.card_pull_state[1].pullers) :
       room.card_pull_state[1].pullers[i].pullsRemaining
         = room.card_pull_state[1].pullers[i].extraTricks


\* ------------------------------------------------------------------------
\* Properties of calculatePullEligibility
\* ------------------------------------------------------------------------
EligReturned == probe.op = "calculatePullEligibility" /\ probe.done

\* The entries of list that name seat p
EntriesOf(list, p) == {i \in 1 .. Len(list) : list[i].position = p}

\* C14: calculatePullEligibility classifies every seat by
\* diff = tricksWon - targetTricks: diff > 0 makes it an over-scorer with
\* extraTricks = pullsRemaining = diff, diff < 0 an under-scorer, diff = 0
\* neither; no seat is in both lists or twice in one.
C14_Classification ==
  EligReturned =>
    \A i \in 1 .. 3 :
      LET r == probe.previousResults[i]
          diff == r.tricksWon - r.targetTricks
          over == EntriesOf(probe.result.overScorers, r.position)
          under == EntriesOf(probe.result.underScorers, r.position)
      IN /\ Cardinality(over) = (IF diff > 0 THEN 1 ELSE 0)
         /\ Cardinality(under) = (IF diff < 0 THEN 1 ELSE 0)
         /\ \A k \in over :
              /\ probe.result.overScorers[k].extraTricks = diff
              /\ probe.result.overScorers[k].pullsRemaining = diff

\* Results (2,2), (7,5), (1,3) of seats 0, 1, 2 under dealer 0: seat 1 is
\* the one over-scorer, with 2 pulls, seat 2 the one under-scorer
C14_Witness ==
  /\ EligReturned
  /\ probe.dealerIndex = 0
  /\ probe.previousResults =
       <<[position |-> 0, tricksWon |-> 2, targetTricks |-> 2],
         [position |-> 1, tricksWon |-> 7, targetTricks |-> 5],
         [position |-> 2, tricksWon |-> 1, targetTricks |-> 3]>>
  /\ probe.result.overScorers =
       <<[position |-> 1, extraTricks |-> 2, pullsRemaining |-> 2]>>
  /\ probe.result.underScorers = <<[position |-> 2]>>

\* The place of seat p in the tie order of dealer d: the seat after the
\* dealer 0, the seat after that 1, the dealer 2
TieOrder(p, d) == (p - d - 1 + 3) % 3

\* C15: the pullers are ordered by extraTricks descending, and among
\* pullers of equal extraTricks the seat (dealerIndex + 1) mod 3 comes
\* first, then (dealerIndex + 2) mod 3, and the dealer last.
C15_PullerOrder ==
  EligReturned =>
    \A i, j \in 1 .. Len(probe.result.overScorers) :
      i < j =>
        LET a == probe.result.overScorers[i]
            b == probe.result.overScorers[j]
        IN \/ a.extraTricks > b.extraTricks
           \/ /\ a.extraTricks = b.extraTricks
              /\ TieOrder(a.position, probe.dealerIndex)
                   < TieOrder(b.position, probe.dealerIndex)


\* ------------------------------------------------------------------------
\* Properties of canReturnCard
\* ------------------------------------------------------------------------
ReturnJudged == probe.op = "canReturnCard" /\ probe.result # "pending"

\* The number of cards of the suit in the hand
CountOfSuit(hand, suit) == Cardinality({i \in 1 .. Len(hand) : hand[i].suit = suit})

\* C18: canReturnCard is valid whenever returnCard has the suit of the
\* pulled card; for a returnCard of another suit it is valid exactly when
\* the hand holds at least 3 cards of returnCard's suit before the swap.
C18_ReturnRule ==
  ReturnJudged =>
    IF probe.returnCard.suit = probe.pulledCard.suit
      THEN probe.result = "true"
      ELSE probe.result = "true"
             <=> CountOfSuit(probe.currentHand, probe.returnCard.suit) >= 3

\* A card of another suit, held with exactly one more card of its suit,
\* is refused
C18_Witness ==
  /\ ReturnJudged
  /\ probe.returnCard.suit # probe.pulledCard.suit
  /\ probe.returnCard \in Range(probe.currentHand)
  /\ CountOfSuit(probe.currentHand, probe.returnCard.suit) = 2
  /\ probe.result = "false"


\* ------------------------------------------------------------------------
\* Properties of the card-pull calls
\* ------------------------------------------------------------------------
\* The step is a call of the handler named op during card_pull
PullCall(op) == room.dealing_phase = "card_pull" /\ probe'.op = op

CurrentPuller(cps) == cps.pullers[cps.currentPullerIndex + 1]

\* C16: selectPullTarget takes effect only in phase selecting_target, only
\* for the current puller and only for a target among the under-scorers; it
\* then sets selectedTarget and phase selecting_card and nothing else; every
\* other call leaves the CardPullState and all hands as they were.
C16_Step ==
  PullCall("selectPullTarget") =>
    LET cps == room.card_pull_state[1]
        allowed ==
          /\ cps.phase = "selecting_target"
          /\ probe'.client = CurrentPuller(cps).position
          /\ \E i \in 1 .. Len(cps.underScorers) :
                cps.underScorers[i].position = probe'.target
    IN IF allowed
         THEN /\ room' = [room EXCEPT !.card_pull_state =
                            <<[cps EXCEPT !.selectedTarget = probe'.target,
                                          !.phase = "selecting_card"]>>]
              /\ players' = players
         ELSE /\ room'.card_pull_state = room.card_pull_state
              /\ \A p \in Positions : players'[p].hand = players[p].hand

C16_SelectTarget == [][C16_Step]_vars

\* The current puller has named an under-scorer and the phase moved on
C16_Witness ==
  /\ probe.op = "selectPullTarget"
  /\ probe.changed
  /\ room.card_pull_state # <<>>
  /\ room.card_pull_state[1].phase = "selecting_card"
  /\ room.card_pull_state[1].selectedTarget = probe.target
  /\ probe.client = CurrentPuller(room.card_pull_state[1]).position

\* C17: selectCardPosition(i) takes effect only in phase selecting_card,
\* only for the current puller and only for 0 <= i < size of the selected
\* target's hand; it then sets pulledCard to the card at index i of that
\* hand, pulledCardIndex to i and phase returning_card, and no hand changes.
C17_Step ==
  PullCall("selectCardPosition") =>
    LET cps == room.card_pull_state[1]
        allowed ==
          /\ cps.phase = "selecting_card"
          /\ cps.selectedTarget \in Positions
          /\ probe'.client = CurrentPuller(cps).position
          /\ 0 <= probe'.cardIndex
          /\ probe'.cardIndex < Len(players[cps.selectedTarget].hand)
    IN IF allowed
         THEN /\ room' = [room EXCEPT !.card_pull_state =
                            <<[cps EXCEPT
                                 !.pulledCard =
                                    players[cps.selectedTarget].hand[probe'.cardIndex + 1],
                                 !.pulledCardIndex = probe'.cardIndex,
                                 !.phase = "returning_card"]>>]
              /\ players' = players
         ELSE UNCHANGED <<room, players>>

C17_SelectCard == [][C17_Step]_vars

\* The current puller has pulled the last card of the target's hand
C17_Witness ==
  /\ probe.op = "selectCardPosition"
  /\ probe.changed
  /\ probe.cardIndex = 9
  /\ room.card_pull_state # <<>>
  /\ room.card_pull_state[1].phase = "returning_card"
  /\ room.card_pull_state[1].pulledCardIndex = 9
  /\ room.card_pull_state[1].pulledCard =
        players[room.card_pull_state[1].selectedTarget].hand[10]

\* C19: in phase returning_card a returnCard call of the current puller
\* with a card that the puller does not hold is rejected: every hand and
\* the CardPullState stay as they were.
C19_Step ==
  (/\ PullCall("returnCard")
   /\ room.card_pull_state[1].phase = "returning_card"
   /\ probe'.client = CurrentPuller(room.card_pull_state[1]).position
   /\ probe'.card \notin Range(players[probe'.client].hand))
    => /\ room'.card_pull_state = room.card_pull_state
       /\ \A p \in Positions : players'[p].hand = players[p].hand

C19_ReturnNotHeld == [][C19_Step]_vars

\* The step is a returnCard call that was accepted: in phase returning_card
\* no other call changes the room or a player
ReturnAccepted ==
  /\ room.dealing_phase = "card_pull"
  /\ room.card_pull_state # <<>>
  /\ room.card_pull_state[1].phase = "returning_card"
  /\ <<room, players>>' # <<room, players>>

\* The hand after the step is the hand before it with the card given
\* replaced by the card taken
Exchanged(p, given, taken) ==
  /\ Len(players'[p].hand) = Len(players[p].hand)
  /\ Range(players'[p].hand) = (Range(players[p].hand) \ {given}) \cup {taken}
  /\ given \in Range(players[p].hand)
  /\ taken \notin Range(players[p].hand)

\* C20: an accepted returnCard swaps exactly two cards: the puller's hand
\* loses the returned card and gains the pulled card, the target's hand
\* loses the pulled card and gains the returned card, the current puller's
\* pullsRemaining goes down by exactly 1 (to 0 when the pull ends with this
\* call), and the third seat's hand, every tricks_won, the scores, the
\* trump suit and current_player_index are unchanged.
C20_Step ==
  ReturnAccepted =>
    LET cps == room.card_pull_state[1]
        puller == CurrentPuller(cps).position
        target == cps.selectedTarget
    IN /\ \E returned \in Range(players[puller].hand) :
            /\ Exchanged(puller, returned, cps.pulledCard)
            /\ Exchanged(target, cps.pulledCard, returned)
       /\ \A p \in Positions \ {puller, target} : players'[p].hand = players[p].hand
       /\ \A p \in Positions :
            /\ players'[p].tricks_won = players[p].tricks_won
            /\ players'[p].overachievement_score = players[p].overachievement_score
       /\ room'.trump_suit = room.trump_suit
       /\ room'.current_player_index = room.current_player_index
       /\ IF room'.card_pull_state # <<>>
            THEN room'.card_pull_state[1].pullers[cps.currentPullerIndex + 1].pullsRemaining
                   = CurrentPuller(cps).pullsRemaining - 1
            ELSE CurrentPuller(cps).pullsRemaining = 1

FreshChoice(cps) ==
  /\ cps.phase = "selecting_target"
  /\ cps.selectedTarget = NullInt
  /\ cps.pulledCard = NoCard
  /\ cps.pulledCardIndex = NullInt

\* C21: after an accepted return, a puller with pulls left chooses again
\* (same currentPullerIndex, selecting_target, selectedTarget, pulledCard
\* and pulledCardIndex cleared); otherwise currentPullerIndex advances by 1
\* to the next puller, in selecting_target, if there is one; otherwise the
\* CardPullState becomes absent and the game phase becomes playing.
C21_Step ==
  ReturnAccepted =>
    LET cps == room.card_pull_state[1]
        after == room'.card_pull_state
    IN IF CurrentPuller(cps).pullsRemaining - 1 > 0
         THEN /\ after # <<>>
              /\ after[1].currentPullerIndex = cps.currentPullerIndex
              /\ FreshChoice(after[1])
              /\ room'.dealing_phase = "card_pull"
       ELSE IF cps.currentPullerIndex + 1 < Len(cps.pullers)
         THEN /\ after # <<>>
              /\ after[1].currentPullerIndex = cps.currentPullerIndex + 1
              /\ FreshChoice(after[1])
              /\ room'.dealing_phase = "card_pull"
       ELSE /\ after = <<>>
            /\ room'.dealing_phase = "playing"
            /\ room'.status = "playing"

C21_AfterReturn == [][C21_Step]_vars

\* The first of two pullers has used its pulls and the second one chooses
C21_Witness ==
  /\ probe.op = "returnCard"
  /\ probe.changed
  /\ room.card_pull_state # <<>>
  /\ room.card_pull_state[1].currentPullerIndex = 1
  /\ room.card_pull_state[1].pullers[1].pullsRemaining = 0
  /\ room.card_pull_state[1].pullers[2].pullsRemaining
       = room.card_pull_state[1].pullers[2].extraTricks
  /\ FreshChoice(room.card_pull_state[1])

\* ------------------------------------------------------------------------
\* Properties of the calls made in every phase
\* ------------------------------------------------------------------------
\* The step is a call of the handler named op
Called(op) == probe' # probe /\ probe'.op = op

\* C24: in every round, whichever seat is the dealer, a dealFinalCards call
\* of the dealer during dealing_3 with 6 cards staged takes effect: every
\* seat gets 2 more cards, nothing stays staged and the phase becomes
\* card_pull or playing.
C24_Step ==
  (/\ Called("dealFinalCards")
   /\ room.dealing_phase = "dealing_3"
   /\ Len(room.remaining_cards) = 6
   /\ probe'.client = room.dealer_index)
    => /\ room'.dealing_phase \in {"card_pull", "playing"}
       /\ room'.remaining_cards = <<>>
       /\ \A p \in Positions :
            Len(players'[p].hand) = Len(players[p].hand) + 2

C24_DealerDeals == [][C24_Step]_vars

\* The room is not in the phase in which the handler named op takes effect
WrongPhase(op) ==
  CASE op = "startGame" -> room.status # "waiting"
    [] op = "selectTrump" -> room.dealing_phase # "trump_selection"
    [] op = "dealFinalCards" -> room.dealing_phase # "dealing_3"
    [] op = "startNewRound" -> room.status # "redistribution"

\* Hands, staged cards, trump, phase, dealer, round number and scores
DealState ==
  <<[p \in Positions |-> players[p].hand],
    room.remaining_cards, room.trump_suit, room.status, room.dealing_phase,
    room.dealer_index, room.round_number,
    [p \in Positions |-> players[p].overachievement_score]>>

\* C22: startGame when the status is not waiting, selectTrump when the phase
\* is not trump_selection, dealFinalCards when the phase is not dealing_3 and
\* startNewRound when the status is not redistribution, the finished game
\* included, leave hands, staged cards, trump, phase, dealer, round number
\* and scores unchanged.
C22_Step ==
  \A op \in {"startGame", "selectTrump", "dealFinalCards", "startNewRound"} :
    (Called(op) /\ WrongPhase(op)) => DealState' = DealState

C22_WrongPhaseNoOp == [][C22_Step]_vars

\* startNewRound has been called in the finished game and changed nothing
C22_Witness ==
  /\ probe.op = "startNewRound"
  /\ ~probe.inPhase
  /\ ~probe.changed
  /\ room.status = "finished"

\* Hands, partial trick, turn, tricks won and the trump-led flag
PlayState ==
  <<[p \in Positions |-> players[p].hand],
    room.current_trick, room.current_player_index,
    [p \in Positions |-> players[p].tricks_won],
    room.trump_led_at_start>>

\* C25: playCard called while the status is not playing changes no hand,
\* not the partial trick, current_player_index, tricks_won or
\* trump_led_at_start.
C25_Step ==
  (Called("playCard") /\ room.status # "playing") => PlayState' = PlayState

C25_PlayOutOfPhase == [][C25_Step]_vars

\* The move of the card by the seat is one that the rules engine refuses
MoveRefused(seat, card) ==
  ~isValidMove(card, players[seat].hand, room.current_trick, room.trump_suit,
               10 - Len(players[seat].hand), room.trump_led_at_start)

\* C26: a playCard call of a seat that is not on turn, or made while the
\* trick of three plays has not been cleared, or with a card that
\* isValidMove refuses, changes no hand, not the partial trick,
\* current_player_index, tricks_won or trump_led_at_start.
C26_Step ==
  (/\ Called("playCard")
   /\ \/ probe'.client # room.current_player_index
      \/ Len(room.current_trick) >= 3
      \/ MoveRefused(probe'.client, probe'.card))
    => PlayState' = PlayState

C26_RejectedPlay == [][C26_Step]_vars

\* The winner of a trick has called playCard before the trick was cleared
C26_Witness ==
  /\ probe.op = "playCard"
  /\ ~probe.changed
  /\ room.status = "playing"
  /\ probe.client = room.current_player_index
  /\ Len(room.current_trick) = 3
  /\ probe.card \in Range(players[probe.client].hand)

\* ------------------------------------------------------------------------
\* Properties of the final deal under stale client state
\* ------------------------------------------------------------------------
\* C23: however many dealFinalCards calls are made for a dealing_3 phase, by
\* clients that have observed dealing_3, the net effect is that of one call:
\* once the final deal is done each seat holds exactly 10 distinct cards.
C23_DealOnce ==
  room.dealing_phase = "playing" =>
    \A p \in Positions :
      /\ Len(players[p].hand) = 10
      /\ Cardinality(HandCards(p)) = 10

\* ------------------------------------------------------------------------
\* Properties of the targets
\* ------------------------------------------------------------------------
\* The seat is d, d + 1 or d + 2 places (mod 3) from the dealer d
PlacesFromDealer(p, d) == CHOOSE k \in 0 .. 2 : (d + k) % 3 = p

Orderings ==
  {[i \in 1 .. 3 |-> probe.cardsPlayed[f[i]]] :
     f \in {g \in [1 .. 3 -> 1 .. 3] : \A i, j \in 1 .. 3 : i # j => g[i] # g[j]}}

\* C28: for every trump and every trick of three plays, evaluateTrick
\* returns the same seat for every ordering of the plays in the array.
C28_AnyOrder ==
  TrickReturned =>
    \A plays \in Orderings : evaluateTrick(plays, probe.trump) = probe.result

\* C28, amended: evaluateTrick returns the same seat for every ordering of
\* the plays whose first play has the suit of the original first play, and
\* for every ordering at all when a trump card is among the plays.
C28_SameLeadSuit ==
  TrickReturned =>
    \A plays \in Orderings :
      (\/ plays[1].card.suit = probe.cardsPlayed[1].card.suit
       \/ PlaysOfSuit(probe.trump) # {})
        => evaluateTrick(plays, probe.trump) = probe.result

\* Both followers trump a plain lead and the last play, the higher trump,
\* takes the trick
C28_Witness ==
  /\ TrickReturned
  /\ probe.trump # NULL
  /\ probe.cardsPlayed[1].card.suit # probe.trump
  /\ probe.cardsPlayed[2].card.suit = probe.trump
  /\ probe.cardsPlayed[3].card.suit = probe.trump
  /\ rankValues(probe.cardsPlayed[3].card.rank) > rankValues(probe.cardsPlayed[2].card.rank)
  /\ probe.result = probe.cardsPlayed[3].position

\* ------------------------------------------------------------------------
\* Properties of the staged deal against dealCards
\* ------------------------------------------------------------------------
\* The hands are those of dealCards for the deck shuffled with this seed
HandsOfDealCards(hands, seed) ==
  \A p \in Positions :
    /\ hands[p].hand = dealCards(shuffle(createDeck, seed))[p]
    /\ \A i \in 1 .. 10 :
         hands[p].hand[i] = shuffle(createDeck, seed)[(i - 1) * 3 + p + 1]

\* C29_Step: the step of the final deal leaves every seat with the hand
\* that dealCards gives it from the deck of the round
C29_Step ==
  (room.dealing_phase = "dealing_3" /\ room'.dealing_phase # "dealing_3")
    => \E seed \in Seeds : HandsOfDealCards(players', seed)

\* C29: the staged deal of startDealing, chooseTrump and dealFinal gives
\* every seat the 10 cards that dealCards gives it from the same deck:
\* seat p holds the cards at deck indices p, p+3, ..., p+27.
C29_StagedAsDealCards == [][C29_Step]_vars

\* The final deal of the first round is complete for the deck of the
\* largest seed
C29_Witness ==
  /\ room.round_number = 1
  /\ room.status = "playing" /\ NoCardPlayed
  /\ HandsOfDealCards(players, MaxSeed)

\* ------------------------------------------------------------------------
\* Properties of canReturnCard at the boundary of two and three cards
\* ------------------------------------------------------------------------
\* The judged call returns a diamond that the hand holds
DiamondOffered ==
  /\ ReturnJudged
  /\ probe.returnCard.suit = "D"
  /\ probe.returnCard \in Range(probe.currentHand)

\* C30: whenever the hand of the puller holds exactly 2 clubs before
\* returning, canReturnCard rejects the return of a diamond.
C30_TwoClubs ==
  (DiamondOffered /\ CountOfSuit(probe.currentHand, "C") = 2)
    => probe.result = "false"

\* C30, amended: whenever the hand of the puller holds exactly 2 diamonds
\* before returning and the pulled card is not a diamond, canReturnCard
\* rejects the return of a diamond, however many clubs the hand holds; with
\* exactly 3 diamonds in the hand the return is accepted.
C30_TwoDiamonds ==
  (DiamondOffered /\ probe.pulledCard.suit # "D")
    => /\ CountOfSuit(probe.currentHand, "D") = 2 => probe.result = "false"
       /\ CountOfSuit(probe.currentHand, "D") = 3 => probe.result = "true"

\* A club was pulled into a hand of three clubs and two diamonds, and the
\* return of one of the diamonds is refused
C30_Witness ==
  /\ DiamondOffered
  /\ probe.pulledCard.suit = "C"
  /\ CountOfSuit(probe.currentHand, "C") = 3
  /\ CountOfSuit(probe.currentHand, "D") = 2
  /\ probe.result = "false"

\* ------------------------------------------------------------------------
\* Properties of the delayed clear of the trick
\* ------------------------------------------------------------------------
C31_Step ==
  (room.status = "playing" /\ Len(room.current_trick) \in {1, 2})
    => room'.current_trick # <<>>

\* C31: during playing the partial trick is emptied only when it holds
\* exactly 3 plays; the delayed clear scheduled after a completed trick,
\* the last trick of a round included, never removes a partial trick of 1
\* or 2 plays, in this round or the next.
C31_ClearOnlyComplete == [][C31_Step]_vars

\* ------------------------------------------------------------------------
\* Properties of the tricks credited in a round
\* ------------------------------------------------------------------------
\* The step resolves a trick: an accepted play is the third of its trick
TrickResolved == AcceptedPlay /\ Len(room'.current_trick) = 3

C32_Step ==
  /\ (room.status # "playing" /\ room'.status = "playing") => TricksWonInRound' = 0
  /\ TrickResolved => TricksWonInRound' = TricksWonInRound + 1
  /\ (room.status = "playing" /\ room'.status = "playing" /\ ~TrickResolved)
       => TricksWonInRound' = TricksWonInRound
  /\ (room.status = "playing" /\ room'.status \in {"redistribution", "finished"})
       => TricksWonInRound' = 10

\* C32: tricks_won of the three seats sum to 0 when playing begins, every
\* resolved trick adds exactly 1 to the sum, nothing else in playing
\* changes it, and the sum is 10 when the round ends.
C32_TricksCredited == [][C32_Step]_vars

\* ------------------------------------------------------------------------
\* Properties of the scores
\* ------------------------------------------------------------------------
ScoreSum ==
  players[0].overachievement_score + players[1].overachievement_score
    + players[2].overachievement_score

C33_Step == RoundEnds => ScoreSum' = 0

\* C33: after every round-end transition the cumulative scores of the
\* three seats sum to 0.
C33_ScoresSumZero == [][C33_Step]_vars

\* C34: whenever the status is finished, the recorded cumulative score of
\* at least one seat is 5 or more.
C34_FinishedScore ==
  room.status = "finished"
    => \E p \in Positions : players[p].overachievement_score >= 5

\* ------------------------------------------------------------------------
\* Properties of the hands during the card pull
\* ------------------------------------------------------------------------
\* C35: throughout card_pull, whatever calls of selectPullTarget,
\* selectCardPosition and returnCard have been accepted, every seat holds
\* exactly 10 cards and the three hands are pairwise disjoint and together
\* the 30 cards of the deck; the same holds when playing begins.
C35_PullKeepsDeck ==
  (\/ room.dealing_phase = "card_pull"
   \/ room.status = "playing" /\ room.round_number > 1 /\ NoCardPlayed)
    => DealtAs(10, 0)

\* ------------------------------------------------------------------------
\* Properties of getValidReturnCards
\* ------------------------------------------------------------------------
ValidReturnsListed == probe.op = "getValidReturnCards" /\ probe.result # <<>>

\* C36: for every hand of 10 cards and every pulled card
\* getValidReturnCards is not empty: the puller holds a card that
\* canReturnCard accepts.
C36_SomeValidReturn ==
  ValidReturnsListed =>
    /\ Len(probe.currentHand) = 10
    /\ probe.result[1] # <<>>
    /\ \E card \in Range(probe.currentHand) :
         canReturnCard(card, probe.pulledCard, probe.currentHand)

\* A hand of 3, 3, 2 and 2 cards of the four suits with a card pulled of a
\* suit held three times: the six cards of the suits held three times are
\* valid and no other
C36_Witness ==
  /\ ValidReturnsListed
  /\ CountOfSuit(probe.currentHand, probe.pulledCard.suit) = 3
  /\ \A suit \in SuitSet : CountOfSuit(probe.currentHand, suit) \in {2, 3}
  /\ Len(probe.result[1]) = 6

\* ------------------------------------------------------------------------
\* Properties of the legal cards of a hand
\* ------------------------------------------------------------------------
\* The cards of the probed hand that isValidMove accepts in the probed
\* position of play
LegalCards ==
  {h \in Range(probe.hand) :
     isValidMove(h, probe.hand, probe.currentTrick, probe.trump,
                 probe.trickIndex, probe.trumpLedAtStart)}

\* C37: for every non-empty hand, partial trick, trump suit and value of
\* trumpLedAtStart (true, false or unknown) the hand holds at least one
\* card that isValidMove accepts.
C37_SomeLegalCard ==
  MoveReturned
    => /\ probe.hand # <<>>
       /\ LegalCards # {}

\* A trump card of a hand that also holds another suit is refused as the
\* lead of a later trick while trumpLedAtStart is unknown, and the hand
\* holds a card that is accepted
C37_Witness ==
  /\ probe.op = "isValidMove" /\ probe.result = "false"
  /\ probe.currentTrick = <<>> /\ probe.trickIndex = 1
  /\ probe.trumpLedAtStart = NULL
  /\ probe.card \in Range(probe.hand) /\ probe.card.suit = probe.trump
  /\ LegalCards # {} /\ LegalCards # Range(probe.hand)

\* ------------------------------------------------------------------------
\* Properties of trump_led_at_start at the lead of a trick
\* ------------------------------------------------------------------------
\* The step is an accepted lead: a card is played onto the empty trick
LeadPlayed == room.current_trick = <<>> /\ Len(room'.current_trick) = 1

\* trickIndex of the seat that leads in the step
LeadTrickIndex == 10 - Len(players[room'.current_trick[1].position].hand)

\* The lead of the step is judged by validateTrumpLeadingRules: a trump
\* suit is set and the leader has played before
LeadUnderRules == LeadPlayed /\ LeadTrickIndex > 0 /\ room.trump_suit # NULL

C38_Step ==
  /\ LeadUnderRules => room.trump_led_at_start # NULL
  /\ (Len(room'.current_trick) > 0 /\ room'.status = "playing")
       => room'.trump_led_at_start # NULL

\* C38: whenever a seat leads a trick with trickIndex > 0, so that
\* validateTrumpLeadingRules judges the lead, trump_led_at_start is true or
\* false, never unknown, and once a card of the round has been played it
\* is not null.
C38_LatchKnown == [][C38_Step]_vars

\* ------------------------------------------------------------------------
\* Properties of the CardPullState
\* ------------------------------------------------------------------------
\* The positions of the entries of a list of pullers or under-scorers
PositionsOf(list) == {list[i].position : i \in 1 .. Len(list)}

PullStateShape(cps) ==
  /\ cps.currentPullerIndex \in 0 .. Len(cps.pullers) - 1
  /\ CurrentPuller(cps).pullsRemaining >= 1
  /\ PositionsOf(cps.pullers) \cap PositionsOf(cps.underScorers) = {}
  /\ cps.phase \in {"selecting_target", "selecting_card", "returning_card"}
  /\ cps.selectedTarget = NullInt <=> cps.phase = "selecting_target"
  /\ cps.pulledCard # NoCard <=> cps.phase = "returning_card"

\* C39: a CardPullState is present exactly when the dealing phase is
\* card_pull; when present, currentPullerIndex names a puller with at
\* least one pull left, no seat is both puller and under-scorer, the phase
\* is not complete, selectedTarget is null exactly in selecting_target and
\* pulledCard is set exactly in returning_card.
C39_PullStateShape ==
  /\ room.card_pull_state # <<>> <=> room.dealing_phase = "card_pull"
  /\ room.card_pull_state # <<>> => PullStateShape(room.card_pull_state[1])

\* ------------------------------------------------------------------------
\* Properties of the course of the card pull
\* ------------------------------------------------------------------------
RECURSIVE PullsLeft(_)
PullsLeft(pullers) ==
  IF pullers = <<>> THEN 0
  ELSE Head(pullers).pullsRemaining + PullsLeft(Tail(pullers))

RECURSIVE ExtraTricksOf(_)
ExtraTricksOf(pullers) ==
  IF pullers = <<>> THEN 0
  ELSE Head(pullers).extraTricks + ExtraTricksOf(Tail(pullers))

\* The returns accepted so far in the pull that cps describes
ReturnsDone(cps) == ExtraTricksOf(cps.pullers) - PullsLeft(cps.pullers)

\* The pullers before the current one have used all their pulls, the
\* current one has some left, the later ones have not begun
PullOrder(cps) ==
  \A i \in 1 .. Len(cps.pullers) :
    LET p == cps.pullers[i]
    IN /\ i < cps.currentPullerIndex + 1 => p.pullsRemaining = 0
       /\ i = cps.currentPullerIndex + 1 => p.pullsRemaining \in 1 .. p.extraTricks
       /\ i > cps.currentPullerIndex + 1 => p.pullsRemaining = p.extraTricks

C40_Step ==
  LET old == room.card_pull_state
      new == room'.card_pull_state
  IN /\ (room.dealing_phase # "card_pull" /\ room'.dealing_phase = "card_pull")
          => /\ new # <<>>
             /\ new[1].currentPullerIndex = 0
             /\ ReturnsDone(new[1]) = 0
     /\ (room.dealing_phase = "card_pull" /\ old # <<>> /\ new # old)
          => IF old[1].phase = "returning_card"
               THEN LET k == old[1].currentPullerIndex + 1
                        p == old[1].pullers[k]
                    IN IF new = <<>>
                         THEN /\ ReturnsDone(old[1]) + 1 = ExtraTricksOf(old[1].pullers)
                              /\ room'.status = "playing"
                         ELSE /\ new[1].pullers =
                                   [old[1].pullers EXCEPT ![k].pullsRemaining = @ - 1]
                              /\ new[1].currentPullerIndex =
                                   IF p.pullsRemaining > 1 THEN k - 1 ELSE k
                              /\ room'.dealing_phase = "card_pull"
               ELSE /\ new # <<>>
                    /\ new[1].pullers = old[1].pullers
                    /\ new[1].currentPullerIndex = old[1].currentPullerIndex
     /\ (room.dealing_phase = "card_pull" /\ room'.dealing_phase # "card_pull")
          => /\ room'.status = "playing"
             /\ old # <<>> /\ new = <<>>
             /\ old[1].phase = "returning_card"

C40_Order ==
  (room.dealing_phase = "card_pull" /\ room.card_pull_state # <<>>)
     => PullOrder(room.card_pull_state[1])

====
